---- MODULE Spec2Model ----
(***************************************************************************)
(* TradeMe backend: the circuit breaker (core/circuit_breaker.py), the     *)
(* agent's trade accounting (agents/base_agent.py) and the orchestrator's  *)
(* trading tick (main.py, agents/manager_agent.py).                        *)
(*                                                                         *)
(* Money is in whole dollars, time in whole hours since a Monday 00:00.    *)
(* Percentages are kept as integers (0.05 is 5, a multiplier 0.7 is 70).   *)
(***************************************************************************)
EXTENDS Integers, Sequences, FiniteSets, TLC

VARIABLES
    now,            \* datetime.now(), in hours
    agent_states,   \* CircuitBreaker.agent_states: agent_id -> AgentBreakerState
    last,           \* the last breaker call observed: its arguments and its result
    agents,         \* AgentManager.agents: name -> the BaseAgent's accounting fields
    trade,          \* the last execute_trade or close_trade_memory call observed
    trading_state,  \* main.trading_state
    ticks,          \* the runs of autonomous_trading_cycle in flight, oldest first
    done,           \* the run of autonomous_trading_cycle that ended last
    position_exits, \* ExitStrategyManager.position_exits: agent_id -> symbol -> ExitLevel
    supabase,       \* the tables trade_memories and winning_patterns, oldest row first
    sched,          \* the scheduler's job 'trading_cycle': fires so far, fate of the last
    broadcast,      \* the type of the last message given to broadcast_update
    earnings_cache  \* EarningsCalendarService._cache and _cache_timestamps, by symbol

vars == <<now, agent_states, last, agents, trade, trading_state, ticks, done, sched,
          broadcast, position_exits, supabase, earnings_cache>>

\* what the breaker and the agent leave alone
tick_vars == <<trading_state, ticks, done, sched, broadcast, position_exits, supabase,
               earnings_cache>>

None == -1

(***************************************************************************)
(* Bounds of the model.                                                    *)
(***************************************************************************)
MaxNow == 192
MaxStreak == 5
MaxTrades == 3
MaxTicks == 2

(***************************************************************************)
(* CircuitBreaker.__init__                                                 *)
(***************************************************************************)
daily_loss_limit == 5
weekly_loss_limit == 10
pause_daily_hours == 24
pause_weekly_days == 7
pause_consecutive_hours == 4
max_consecutive_losses == 5
win_streak_bonus_threshold == 5
loss_streak_malus_threshold == 3
loss_streak_multiplier == 70
win_streak_multiplier == 120
HoursPerDay == 24

PausedStatuses == {"PAUSED_DAILY", "PAUSED_WEEKLY", "PAUSED_CONSECUTIVE", "REVIEW_REQUIRED"}

\* datetime.date(): the calendar day of an instant
Date(t) == t \div HoursPerDay

\* timedelta.days of (t - since)
DaysBetween(since, t) == (t - since) \div HoursPerDay

\* AgentBreakerState as get_or_create_state builds it. daily_pnl, weekly_pnl,
\* daily_trades, last_results, last_trade_time and pause_reason are written but
\* never read by any decision, and are left out.
NewBreakerState(initial_capital, t) ==
    [status |-> "ACTIVE",
     pause_until |-> None,
     daily_start_capital |-> initial_capital,
     weekly_start_capital |-> initial_capital,
     consecutive_wins |-> 0,
     consecutive_losses |-> 0,
     sizing_multiplier |-> 100,
     last_reset_daily |-> t,
     last_reset_weekly |-> t]

get_or_create_state(states, agent_id, initial_capital, t) ==
    IF agent_id \in DOMAIN states
    THEN states
    ELSE states @@ (agent_id :> NewBreakerState(initial_capital, t))

_reset_daily_if_needed(state, current_capital, t) ==
    IF state.last_reset_daily = None \/ Date(state.last_reset_daily) < Date(t)
    THEN [state EXCEPT !.daily_start_capital = current_capital,
                       !.last_reset_daily = t]
    ELSE state

_reset_weekly_if_needed(state, current_capital, t) ==
    IF state.last_reset_weekly = None
    THEN [state EXCEPT !.last_reset_weekly = t,
                       !.weekly_start_capital = current_capital]
    ELSE IF DaysBetween(state.last_reset_weekly, t) >= 7
         THEN [state EXCEPT !.weekly_start_capital = current_capital,
                            !.last_reset_weekly = t]
         ELSE state

LossAtLeast_Strict(start_capital, current_capital, limit_pct) ==
    /\ start_capital > 0
    /\ (start_capital - current_capital) * 100 > limit_pct * start_capital

\* loss_pct >= limit, for loss_pct = max(0, (start - capital) / start) and a limit
\* of limit_pct percent; 0 when start <= 0
LossAtLeast(start_capital, current_capital, limit_pct) ==
    /\ start_capital > 0
    /\ (start_capital - current_capital) * 100 >= limit_pct * start_capital

DailyBreached(state, current_capital) ==
    LossAtLeast(state.daily_start_capital, current_capital, daily_loss_limit)

WeeklyBreached(state, current_capital) ==
    LossAtLeast(state.weekly_start_capital, current_capital, weekly_loss_limit)

_trigger_pause(state, status, duration, t) ==
    [state EXCEPT !.status = status, !.pause_until = t + duration]

_reactivate_trading_KeepStreak(state) ==
    [state EXCEPT !.status = "ACTIVE", !.pause_until = None]

_reactivate_trading(state) ==
    [state EXCEPT !.status = "ACTIVE", !.pause_until = None,
                  !.consecutive_losses = 0]

PauseRunning_Inverted(state, t) ==
    /\ state.status # "ACTIVE"
    /\ state.pause_until # None
    /\ t > state.pause_until

\* the pause branch of can_trade: the pause is still running
PauseRunning(state, t) ==
    /\ state.status # "ACTIVE"
    /\ state.pause_until # None
    /\ t < state.pause_until

CheckLimits_StrictStreak(state, current_capital, t) ==
    IF DailyBreached(state, current_capital)
    THEN [state |-> _trigger_pause(state, "PAUSED_DAILY", pause_daily_hours, t),
          ok |-> FALSE, reason |-> "DAILY"]
    ELSE IF WeeklyBreached(state, current_capital)
    THEN [state |-> _trigger_pause(state, "PAUSED_WEEKLY",
                                   pause_weekly_days * HoursPerDay, t),
          ok |-> FALSE, reason |-> "WEEKLY"]
    ELSE IF state.consecutive_losses > max_consecutive_losses
    THEN [state |-> _trigger_pause(state, "PAUSED_CONSECUTIVE",
                                   pause_consecutive_hours, t),
          ok |-> FALSE, reason |-> "CONSECUTIVE"]
    ELSE [state |-> state, ok |-> TRUE, reason |-> "OK"]

\* CHECK 1..3 of can_trade, on the state left by the resets and the reactivation
CheckLimits(state, current_capital, t) ==
    IF DailyBreached(state, current_capital)
    THEN [state |-> _trigger_pause(state, "PAUSED_DAILY", pause_daily_hours, t),
          ok |-> FALSE, reason |-> "DAILY"]
    ELSE IF WeeklyBreached(state, current_capital)
    THEN [state |-> _trigger_pause(state, "PAUSED_WEEKLY",
                                   pause_weekly_days * HoursPerDay, t),
          ok |-> FALSE, reason |-> "WEEKLY"]
    ELSE IF state.consecutive_losses >= max_consecutive_losses
    THEN [state |-> _trigger_pause(state, "PAUSED_CONSECUTIVE",
                                   pause_consecutive_hours, t),
          ok |-> FALSE, reason |-> "CONSECUTIVE"]
    ELSE [state |-> state, ok |-> TRUE, reason |-> "OK"]

\* The state can_trade works on once both resets have run
AfterResets(state, current_capital, t) ==
    _reset_weekly_if_needed(_reset_daily_if_needed(state, current_capital, t),
                            current_capital, t)

\* can_trade on one agent's state: [state, ok, reason]
can_trade(state, current_capital, t) ==
    LET s == AfterResets(state, current_capital, t) IN
    IF PauseRunning(s, t)
    THEN [state |-> s, ok |-> FALSE, reason |-> "PAUSED"]
    ELSE IF s.status # "ACTIVE"
         THEN CheckLimits(_reactivate_trading(s), current_capital, t)
         ELSE CheckLimits(s, current_capital, t)

\* the streak update of record_trade_result
UpdateStreaks(state, pnl) ==
    IF pnl > 0
    THEN LET w == state.consecutive_wins + 1 IN
         [state EXCEPT !.consecutive_wins = w,
                       !.consecutive_losses = 0,
                       !.sizing_multiplier =
                           IF w >= win_streak_bonus_threshold
                           THEN win_streak_multiplier ELSE @]
    ELSE LET l == state.consecutive_losses + 1 IN
         [state EXCEPT !.consecutive_losses = l,
                       !.consecutive_wins = 0,
                       !.sizing_multiplier =
                           IF l >= loss_streak_malus_threshold
                           THEN loss_streak_multiplier ELSE @]

Abs(x) == IF x < 0 THEN -x ELSE x

\* record_trade_result on one agent's state
record_trade_result(state, pnl, current_capital, t) ==
    UpdateStreaks(_reset_daily_if_needed(state, current_capital + Abs(pnl), t), pnl)

\* no run of the tick has ended yet
NoTick == [pc |-> "none", window |-> "unread", submits |-> 0, allowed |-> <<>>,
           results |-> <<>>, retry |-> <<>>, solo_gates |-> "no_order", traded |-> {},
           recorded |-> {}, invalid |-> {}, turn |-> <<>>]

NoSched == [fired |-> 0, last |-> "none"]

\* the tables before the first trade
NoRows == [trade_memories |-> <<>>, winning_patterns |-> <<>>]

\* the orchestrator before the first request and the first scheduler fire
TickIdle ==
    /\ trading_state = [active |-> FALSE]
    /\ ticks = <<>>
    /\ done = NoTick
    /\ sched = NoSched
    /\ broadcast = "none"
    /\ position_exits = <<>>
    /\ supabase = NoRows
    /\ earnings_cache = <<>>

\* last.flip alternates so that every call is a step, also one that changes nothing
NoCall == [op |-> "none", agent |-> "", capital |-> 0, pre_status |-> "",
           ok |-> TRUE, reason |-> "", flip |-> FALSE]

(***************************************************************************)
(* Exact fractions <<numerator, denominator>>, denominator > 0, in lowest  *)
(* terms: the values Python's float arithmetic approximates.               *)
(***************************************************************************)
RECURSIVE Gcd(_, _)
Gcd(a, b) == IF b = 0 THEN a ELSE Gcd(b, a % b)

Frac(n, d) ==
    LET g == Gcd(Abs(n), d) IN
    IF n = 0 THEN <<0, 1>> ELSE <<n \div g, d \div g>>

FracOfInt(n) == <<n, 1>>
FracAdd(x, y) == Frac(x[1] * y[2] + y[1] * x[2], x[2] * y[2])
FracSub(x, y) == Frac(x[1] * y[2] - y[1] * x[2], x[2] * y[2])
FracTimes(x, k) == Frac(x[1] * k, x[2])
FracOver(x, k) == Frac(x[1], x[2] * k)
FracPositive(x) == x[1] > 0

(***************************************************************************)
(* BaseAgent: execute_trade and _update_positions.                         *)
(***************************************************************************)
capital_per_agent == 10000
simulated_fee_per_trade == 1

AgentNames == {"grok"}
Symbols == {"AAPL", "NVDA"}

\* BaseAgent.__init__. positions maps a symbol to [qty, avg_price]; history,
\* the model handle and the autocritique fields play no part in the accounting.
NewAgent(initial_capital) ==
    [initial_capital |-> initial_capital,
     current_capital |-> initial_capital,
     total_fees |-> 0,
     total_profit |-> FracOfInt(0),
     trade_count |-> 0,
     winning_trades |-> 0,
     losing_trades |-> 0,
     positions |-> <<>>]

\* dict without one key
Without(f, k) == [x \in DOMAIN f \ {k} |-> f[x]]

\* dict with one key set
With(f, k, v) == [x \in DOMAIN f \cup {k} |-> IF x = k THEN v ELSE f[x]]

\* SellHeld with the deletion test "qty < 0": a position sold out exactly stays in the map
SellHeld_KeepEmpty(agent, symbol, quantity, price) ==
    LET pos == agent.positions[symbol]
        qty == pos.qty - quantity
        pnl == FracTimes(FracSub(FracOfInt(price), pos.avg_price), quantity)
        won == FracPositive(pnl)
    IN [agent EXCEPT
          !.total_profit = FracAdd(@, pnl),
          !.winning_trades = IF won THEN @ + 1 ELSE @,
          !.losing_trades = IF won THEN @ ELSE @ + 1,
          !.positions = IF qty < 0
                        THEN Without(@, symbol)
                        ELSE With(@, symbol, [pos EXCEPT !.qty = qty])]

\* the SELL branch of _update_positions for a symbol that has a position
SellHeld(agent, symbol, quantity, price) ==
    LET pos == agent.positions[symbol]
        qty == pos.qty - quantity
        pnl == FracTimes(FracSub(FracOfInt(price), pos.avg_price), quantity)
        won == FracPositive(pnl)
    IN [agent EXCEPT
          !.total_profit = FracAdd(@, pnl),
          !.winning_trades = IF won THEN @ + 1 ELSE @,
          !.losing_trades = IF won THEN @ ELSE @ + 1,
          !.positions = IF qty <= 0
                        THEN Without(@, symbol)
                        ELSE With(@, symbol, [pos EXCEPT !.qty = qty])]

\* the BUY branch of _update_positions: the position after the purchase
BoughtPosition(agent, symbol, quantity, price) ==
    IF symbol \in DOMAIN agent.positions
    THEN LET pos == agent.positions[symbol]
             total_qty == pos.qty + quantity
         IN [qty |-> total_qty,
             avg_price |-> FracOver(FracAdd(FracTimes(pos.avg_price, pos.qty),
                                            FracOfInt(quantity * price)),
                                    total_qty)]
    ELSE [qty |-> quantity, avg_price |-> FracOfInt(price)]

_update_positions(agent, action, symbol, quantity, price) ==
    IF action = "BUY"
    THEN [agent EXCEPT
            !.current_capital = @ - (quantity * price + simulated_fee_per_trade),
            !.positions = With(@, symbol, BoughtPosition(agent, symbol, quantity, price))]
    ELSE IF action = "SELL"
    THEN LET credited == [agent EXCEPT !.current_capital =
                              @ + (quantity * price - simulated_fee_per_trade)]
         IN IF symbol \in DOMAIN agent.positions
            THEN SellHeld(credited, symbol, quantity, price)
            ELSE credited
    ELSE agent

\* the HOLD test of execute_trade (line 405)
IsHold(decision) ==
    decision.decision = "HOLD" \/ decision.symbol = "" \/ decision.quantity <= 0

\* the capital check of a BUY; bars is the close of the last daily bar, None when
\* get_market_data returns nothing
BuyRefused(agent, decision, bars) ==
    /\ decision.decision = "BUY"
    /\ \/ bars = None
       \/ decision.quantity * bars + simulated_fee_per_trade > agent.current_capital

\* order.get("filled_avg_price", 0) or 0
FillPrice(order) == IF order.filled_avg_price = None THEN 0 ELSE order.filled_avg_price

\* execute_trade: [agent, ok, submitted, filled]. order is what
\* alpaca_client.submit_order returns: NoOrder for None, else the order's dict.
execute_trade(agent, decision, bars, order) ==
    IF IsHold(decision)
    THEN [agent |-> agent, ok |-> TRUE, submitted |-> FALSE, filled |-> FALSE]
    ELSE IF BuyRefused(agent, decision, bars)
    THEN [agent |-> agent, ok |-> FALSE, submitted |-> FALSE, filled |-> FALSE]
    ELSE IF ~order.accepted
    THEN [agent |-> agent, ok |-> FALSE, submitted |-> TRUE, filled |-> FALSE]
    ELSE [agent |-> _update_positions(
                        [agent EXCEPT !.trade_count = @ + 1,
                                      !.total_fees = @ + simulated_fee_per_trade],
                        decision.decision, decision.symbol, decision.quantity,
                        FillPrice(order)),
          ok |-> TRUE, submitted |-> TRUE,
          filled |-> order.filled_avg_price # None]

(***************************************************************************)
(* One agent driven by arbitrary decisions and broker answers.             *)
(***************************************************************************)
\* decision.get("decision").upper() of an LLM answer; WAIT stands for any other word
Actions == {"BUY", "SELL", "HOLD", "WAIT"}
Quantities == {0, 1, 99}
Closes == {100}
Prices == {100, 120}
Decisions == [decision : Actions, symbol : Symbols \cup {""}, quantity : Quantities]
Orders == [accepted : {FALSE}, filled_avg_price : {None}]
             \cup [accepted : {TRUE}, filled_avg_price : Prices \cup {None}]

NoTrade == [agent |-> "", decision |-> "HOLD", ok |-> TRUE, submitted |-> FALSE,
            filled |-> FALSE]

InitAgent ==
    /\ now = 0
    /\ agent_states = <<>>
    /\ last = NoCall
    /\ agents = [n \in AgentNames |-> NewAgent(capital_per_agent)]
    /\ trade = NoTrade
    /\ TickIdle

\* the broker answers only an order that is submitted, and the bar is read only for a BUY
BarsFor(d) == IF d.decision = "BUY" /\ ~IsHold(d) THEN Closes \cup {None} ELSE {None}
OrdersFor(ag, d, bars) ==
    IF IsHold(d) \/ BuyRefused(ag, d, bars) THEN {CHOOSE o \in Orders : ~o.accepted} ELSE Orders

CallExecuteTrade ==
    \E n \in AgentNames, d \in Decisions :
      \E bars \in BarsFor(d) :
        \E order \in OrdersFor(agents[n], d, bars) :
          LET r == execute_trade(agents[n], d, bars, order) IN
          /\ r.agent.trade_count <= MaxTrades
          /\ agents' = [agents EXCEPT ![n] = r.agent]
          /\ trade' = [agent |-> n, decision |-> d.decision, ok |-> r.ok,
                       submitted |-> r.submitted, filled |-> r.filled]
          /\ UNCHANGED <<now, agent_states, last, tick_vars>>

NextAgent == CallExecuteTrade

SpecAgent == InitAgent /\ [][NextAgent]_vars

(***************************************************************************)
(* The circuit breaker driven by arbitrary callers.                        *)
(***************************************************************************)
BreakerAgents == {"grok"}
Capitals == {10000, 9500, 9000}
Pnls == {-500, 0, 500}

\* the instants at which the breaker is called: a pause's start, its deadline,
\* the next day, the next week
Instants == {t \in 0..MaxNow : t \in {0, 4, 24, 192}}

InitBreaker ==
    /\ now = 0
    /\ agent_states = <<>>
    /\ last = NoCall
    /\ agents = [n \in AgentNames |-> NewAgent(capital_per_agent)]
    /\ trade = NoTrade
    /\ TickIdle

Advance ==
    \E t \in Instants :
        /\ t > now
        /\ now' = t
        /\ UNCHANGED <<agent_states, last, agents, trade, tick_vars>>

CallCanTrade ==
    \E a \in BreakerAgents, c \in Capitals :
        LET states == get_or_create_state(agent_states, a, c, now)
            r == can_trade(states[a], c, now)
        IN /\ agent_states' = [states EXCEPT ![a] = r.state]
           /\ last' = [op |-> "can_trade", agent |-> a, capital |-> c,
                       pre_status |-> states[a].status,
                       ok |-> r.ok, reason |-> r.reason, flip |-> ~last.flip]
           /\ UNCHANGED <<now, agents, trade, tick_vars>>

CallRecordTradeResult ==
    \E a \in BreakerAgents, c \in Capitals, p \in Pnls :
        LET states == get_or_create_state(agent_states, a, c, now)
            s == record_trade_result(states[a], p, c, now)
        IN /\ s.consecutive_wins <= MaxStreak
           /\ s.consecutive_losses <= MaxStreak
           /\ agent_states' = [states EXCEPT ![a] = s]
           /\ last' = [op |-> "record_trade_result", agent |-> a, capital |-> c,
                       pre_status |-> states[a].status,
                       ok |-> s.status = "ACTIVE", reason |-> "", flip |-> ~last.flip]
           /\ UNCHANGED <<now, agents, trade, tick_vars>>

NextBreaker == Advance \/ CallCanTrade \/ CallRecordTradeResult

SpecBreaker == InitBreaker /\ [][NextBreaker]_vars

(***************************************************************************)
(* MarketHoursService.get_market_hours_info on a New York clock reading:   *)
(* [weekday, holiday, minute], Monday = 0, minute of the day.              *)
(***************************************************************************)
market_open_ny == 9 * 60 + 30
market_close_ny == 16 * 60
avoid_opening_minutes == 30
avoid_closing_minutes == 15
optimal_start_ny == 10 * 60
optimal_end_ny == 15 * 60

_is_weekend(clock) == clock.weekday >= 5

\* _is_holiday: the date is in us_holidays
_is_holiday(clock) == clock.holiday

MarketClosed == [can_trade |-> FALSE, trading_window |-> "MARKET_CLOSED"]

get_market_hours_info(clock) ==
    LET minutes_since_open == clock.minute - market_open_ny
        minutes_until_close == market_close_ny - clock.minute
    IN IF _is_weekend(clock) THEN MarketClosed
       ELSE IF _is_holiday(clock) THEN MarketClosed
       ELSE IF clock.minute < market_open_ny THEN MarketClosed
       ELSE IF clock.minute >= market_close_ny THEN MarketClosed
       ELSE IF minutes_since_open < avoid_opening_minutes
       THEN [can_trade |-> FALSE, trading_window |-> "AVOID_OPENING"]
       ELSE IF minutes_until_close <= avoid_closing_minutes
       THEN [can_trade |-> FALSE, trading_window |-> "AVOID_CLOSING"]
       ELSE IF optimal_start_ny <= clock.minute /\ clock.minute <= optimal_end_ny
       THEN [can_trade |-> TRUE, trading_window |-> "OPTIMAL"]
       ELSE [can_trade |-> TRUE, trading_window |-> "ACCEPTABLE"]

(***************************************************************************)
(* core/exit_strategy_manager.py. Prices are in cents, percentages in      *)
(* thousandths, trailing_stop_price in thousandths of a cent.              *)
(***************************************************************************)
default_stop_loss_pct == 30
default_take_profit_pct == 60
trailing_activation_pct == 40
trailing_distance_pct == 15
max_holding_days == 10
stagnation_threshold_pct == 10

Cents(dollars) == dollars * 100

\* round(price, 2) of a price given in thousandths of a cent
RoundToCents(thousandths) == (thousandths + 500) \div 1000

\* lines 197-225; sl_pct and tp_pct are what calculate_stop_loss_pct and
\* calculate_take_profit_pct return
create_exit_levels(exits, agent_id, symbol, entry_price, sl_pct, tp_pct, t) ==
    LET exit_level ==
            [stop_loss_price |-> RoundToCents(entry_price * (1000 - sl_pct)),
             stop_loss_pct |-> sl_pct,
             take_profit_price |-> RoundToCents(entry_price * (1000 + tp_pct)),
             take_profit_pct |-> tp_pct,
             trailing_stop_active |-> FALSE,
             trailing_stop_price |-> None,
             highest_price_seen |-> entry_price,
             entry_time |-> t]
        of_agent == IF agent_id \in DOMAIN exits THEN exits[agent_id] ELSE <<>>
    IN With(exits, agent_id, With(of_agent, symbol, exit_level))

HasExitLevel(exits, agent_id, symbol) ==
    agent_id \in DOMAIN exits /\ symbol \in DOMAIN exits[agent_id]

\* lines 348-354
remove_position(exits, agent_id, symbol) ==
    IF HasExitLevel(exits, agent_id, symbol)
    THEN [exits EXCEPT ![agent_id] = Without(@, symbol)]
    ELSE exits

ExitSignal(should_exit, reason, current_pnl_pct) ==
    [should_exit |-> should_exit, reason |-> reason, current_pnl_pct |-> current_pnl_pct,
     raised |-> FALSE]

\* line 269 divides the stop-loss price by 1 - stop_loss_pct and line 270 divides
\* by the result: a ZeroDivisionError when the level was created at entry price 0
RaisedSignal == [should_exit |-> FALSE, reason |-> "ZeroDivisionError",
                 current_pnl_pct |-> 0, raised |-> TRUE]

\* current_pnl_pct (lines 269-270) in thousandths, rounded down
CurrentPnl(exit_level, current_price) ==
    (current_price * (1000 - exit_level.stop_loss_pct) - exit_level.stop_loss_price * 1000)
        \div exit_level.stop_loss_price

\* current_pnl_pct >= trailing_activation_pct, without the rounding of CurrentPnl
TrailingReached(exit_level, current_price) ==
    current_price * (1000 - exit_level.stop_loss_pct)
        >= exit_level.stop_loss_price * (1000 + trailing_activation_pct)

\* lines 293-305: the level after the trailing stop update
TrailingUpdate(exit_level, current_price) ==
    LET highest == IF current_price > exit_level.highest_price_seen
                   THEN current_price ELSE exit_level.highest_price_seen
    IN [exit_level EXCEPT !.trailing_stop_active = TRUE,
                          !.highest_price_seen = highest,
                          !.trailing_stop_price = highest * (1000 - trailing_distance_pct)]

\* the stop-loss test with < for <=
StopLossHit_Strict(exit_level, current_price) == current_price < exit_level.stop_loss_price

\* line 273
StopLossHit(exit_level, current_price) == current_price <= exit_level.stop_loss_price

\* lines 255-346: [exits, signal]
check_exit_conditions(exits, agent_id, symbol, current_price, smart_money_signal, t) ==
    IF ~HasExitLevel(exits, agent_id, symbol)
    THEN [exits |-> exits, signal |-> ExitSignal(FALSE, "MANUAL", 0)]
    ELSE LET exit_level == exits[agent_id][symbol] IN
         IF exit_level.stop_loss_price = 0
         THEN [exits |-> exits, signal |-> RaisedSignal]
         ELSE
         LET pnl == CurrentPnl(exit_level, current_price)
             trailing == TrailingReached(exit_level, current_price)
             updated == IF trailing THEN TrailingUpdate(exit_level, current_price)
                        ELSE exit_level
             after == [exits EXCEPT ![agent_id][symbol] = updated]
             holding_days == DaysBetween(exit_level.entry_time, t)
         IN IF StopLossHit(exit_level, current_price)
            THEN [exits |-> exits, signal |-> ExitSignal(TRUE, "STOP_LOSS", pnl)]
            ELSE IF current_price >= exit_level.take_profit_price
            THEN [exits |-> exits, signal |-> ExitSignal(TRUE, "TAKE_PROFIT", pnl)]
            ELSE IF trailing /\ current_price * 1000 <= updated.trailing_stop_price
            THEN [exits |-> after, signal |-> ExitSignal(TRUE, "TRAILING_STOP", pnl)]
            ELSE IF holding_days >= max_holding_days
                    /\ current_price * (1000 - exit_level.stop_loss_pct) * 100
                         < exit_level.stop_loss_price * 1000 * 101
                    /\ current_price * (1000 - exit_level.stop_loss_pct) * 100
                         > exit_level.stop_loss_price * 1000 * 99
            THEN [exits |-> after, signal |-> ExitSignal(TRUE, "TIME_EXIT", pnl)]
            ELSE IF smart_money_signal = "STRONG_BEARISH"
                    /\ current_price * (1000 - exit_level.stop_loss_pct)
                         > exit_level.stop_loss_price * 1000
            THEN [exits |-> after, signal |-> ExitSignal(TRUE, "SIGNAL_EXIT", pnl)]
            ELSE [exits |-> after, signal |-> ExitSignal(FALSE, "MANUAL", pnl)]

(***************************************************************************)
(* core/kelly_calculator.py and the sizing multiplier of the signal        *)
(* combiner, in exact fractions; VIX and confidence are integers, the      *)
(* scores of the combiner are in hundredths.                               *)
(***************************************************************************)
FracMul(x, y) == Frac(x[1] * y[1], x[2] * y[2])
FracDiv(x, y) == Frac(x[1] * y[2], x[2] * y[1])
FracLess(x, y) == x[1] * y[2] < y[1] * x[2]
FracMin(x, y) == IF FracLess(x, y) THEN x ELSE y
FracMax(x, y) == IF FracLess(x, y) THEN y ELSE x
FracFloor(x) == x[1] \div x[2]

\* a quarter of the capital, which max_position_pct is not
max_position_pct_Quarter == <<1, 4>>

default_win_rate == <<1, 2>>
default_win_loss_ratio == <<3, 2>>
max_position_pct == <<1, 10>>
min_position_pct == <<1, 100>>
base_kelly_multiplier == <<1, 2>>
vix_low_threshold == 15
vix_high_threshold == 30
vix_low_multiplier == <<3, 2>>
vix_high_multiplier == <<1, 2>>
win_streak_threshold == 5
loss_streak_threshold == 3
win_streak_bonus == <<6, 5>>
loss_streak_malus == <<3, 5>>

\* get_agent_statistics for an agent without a row in agent_statistics
DefaultStatistics == [win_rate |-> default_win_rate,
                      win_loss_ratio |-> default_win_loss_ratio]

\* lines 139-143
calculate_kelly_fraction(win_rate, win_loss_ratio) ==
    IF ~FracPositive(win_loss_ratio) THEN <<0, 1>>
    ELSE FracSub(win_rate, FracDiv(FracSub(<<1, 1>>, win_rate), win_loss_ratio))

\* lines 98-109
VixFactor(vix) ==
    IF vix < vix_low_threshold THEN vix_low_multiplier
    ELSE IF vix > vix_high_threshold THEN vix_high_multiplier
    ELSE LET vix_position == Frac(vix - vix_low_threshold,
                                  vix_high_threshold - vix_low_threshold)
         IN FracSub(vix_low_multiplier,
                    FracMul(vix_position, FracSub(vix_low_multiplier, vix_high_multiplier)))

\* lines 95-120
get_dynamic_kelly_multiplier(vix, consecutive_wins, consecutive_losses) ==
    LET multiplier == FracMul(base_kelly_multiplier, VixFactor(vix)) IN
    IF consecutive_wins >= win_streak_threshold THEN FracMul(multiplier, win_streak_bonus)
    ELSE IF consecutive_losses >= loss_streak_threshold
    THEN FracMul(multiplier, loss_streak_malus)
    ELSE multiplier

\* lines 192-203
calculate_confidence_factor(confidence) ==
    IF confidence < 50 THEN <<3, 10>>
    ELSE IF confidence < 60 THEN <<1, 2>>
    ELSE IF confidence < 70 THEN <<7, 10>>
    ELSE IF confidence < 80 THEN <<17, 20>>
    ELSE IF confidence < 90 THEN <<1, 1>>
    ELSE <<11, 10>>

\* lines 217-239; the test "vix > 35" follows "vix > 25" in an elif chain
calculate_risk_factor(vix, risk_level, smart_money_signal) ==
    LET by_vix == IF vix < 15 THEN <<11, 10>>
                  ELSE IF vix > 25 THEN <<4, 5>>
                  ELSE <<1, 1>>
        by_risk == IF risk_level = "LOW" THEN <<11, 10>>
                   ELSE IF risk_level = "HIGH" THEN <<4, 5>>
                   ELSE <<1, 1>>
        by_signal == IF smart_money_signal \in {"BULLISH", "STRONG_BULLISH"} THEN <<11, 10>>
                     ELSE IF smart_money_signal \in {"BEARISH", "STRONG_BEARISH"}
                     THEN <<4, 5>>
                     ELSE <<1, 1>>
        factor == FracMul(FracMul(by_vix, by_risk), by_signal)
    IN FracMin(<<13, 10>>, FracMax(<<2, 5>>, factor))

\* round(amount, 2) of an amount in dollars, in cents
RoundedCents(amount) == (amount[1] * 200 + amount[2]) \div (2 * amount[2])

\* the quotient and the remainder of x by d, the quotient to k more decimal places
RECURSIVE LongDivision(_, _, _, _)
LongDivision(q, r, d, k) ==
    IF k = 0 THEN <<q, r>>
    ELSE LongDivision(q * 10 + (r * 10) \div d, (r * 10) % d, d, k - 1)

\* round(x, 4)
Rounded4(x) ==
    LET qr == LongDivision(x[1] \div x[2], x[1] % x[2], x[2], 4)
    IN Frac(IF 2 * qr[2] >= x[2] THEN qr[1] + 1 ELSE qr[1], 10000)

\* lines 274-318: the PositionSizing fields position_pct, kelly_fraction and
\* recommended_amount, the amount in cents
calculate_position_size(stats, capital, confidence, risk_level, vix, smart_money_signal, consecutive_wins, consecutive_losses) ==
    LET kelly_raw == calculate_kelly_fraction(stats.win_rate, stats.win_loss_ratio)
        dynamic_multiplier == get_dynamic_kelly_multiplier(vix, consecutive_wins,
                                                           consecutive_losses)
        kelly_adjusted == FracMul(kelly_raw, dynamic_multiplier)
        final_kelly == FracMul(FracMul(kelly_adjusted,
                                       calculate_confidence_factor(confidence)),
                               calculate_risk_factor(vix, risk_level, smart_money_signal))
        position_pct == IF ~FracPositive(kelly_raw) THEN min_position_pct
                        ELSE FracMin(max_position_pct, FracMax(min_position_pct, final_kelly))
    IN [position_pct |-> Rounded4(position_pct),
        kelly_fraction |-> Rounded4(kelly_raw),
        recommended_amount |-> RoundedCents(FracTimes(position_pct, capital))]

\* SignalCombiner._calculate_sizing_multiplier
_calculate_sizing_multiplier(confidence, smart_score, memory_score) ==
    LET by_confidence == IF confidence >= 90 THEN <<13, 10>>
                         ELSE IF confidence >= 80 THEN <<11, 10>>
                         ELSE IF confidence < 60 THEN <<7, 10>>
                         ELSE <<1, 1>>
        by_smart == IF smart_score > 50 THEN <<6, 5>>
                    ELSE IF smart_score < -50 THEN <<3, 5>>
                    ELSE <<1, 1>>
        by_memory == IF memory_score > 50 THEN <<11, 10>>
                     ELSE IF memory_score < -50 THEN <<4, 5>>
                     ELSE <<1, 1>>
        base == FracMul(FracMul(by_confidence, by_smart), by_memory)
    IN FracMax(<<1, 2>>, FracMin(<<3, 2>>, base))

\* the whole shares that an amount (in cents) scaled by the sizing multiplier buys
\* at a price (in dollars)
KellyQuantity(kelly_amount, sizing_multiplier, price) ==
    FracFloor(FracMul(Frac(kelly_amount, 100 * price), sizing_multiplier))

(***************************************************************************)
(* AgentManager.run_trading_cycle: one agent's turn.                       *)
(***************************************************************************)
\* the verdicts the gate services give on a decision: technical_blocked is
\* "symbol in technical_data and not gate_result.can_proceed", earnings_avoid is
\* earnings_info.should_avoid_buy, should_proceed is combined.should_proceed
Gates == [technical_blocked : BOOLEAN, earnings_avoid : BOOLEAN, should_proceed : BOOLEAN]

\* the gate of a solo agent's turn that rejects the decision, in the order of the code
SoloGateBlock(action, gates) ==
    IF gates.technical_blocked THEN "technical_gates"
    ELSE IF action = "BUY" /\ gates.earnings_avoid THEN "earnings"
    ELSE IF ~gates.should_proceed THEN "signal_combiner"
    ELSE "none"

\* the consortium's decision meets the signal combiner only
ConsortiumGateBlock(action, gates) ==
    IF ~gates.should_proceed THEN "signal_combiner" ELSE "none"

Proceeds_PastCombiner(blocked_by) == blocked_by \in {"none", "signal_combiner"}

\* execute_trade is reached: no "continue" was taken and should_proceed held
Proceeds(blocked_by) == blocked_by = "none"

NoDecision == [decision |-> "NONE", symbol |-> "", quantity |-> 0, price |-> 0]
NoOrder == [accepted |-> FALSE, filled_avg_price |-> None]

Count(b) == IF b THEN 1 ELSE 0

\* results[name] of a turn; decision_executed is decision["executed"], submits counts
\* the submit_order calls of the turn
TurnResult(action, blocked_by, executed, submits, retried) ==
    [decision |-> action, blocked_by |-> blocked_by, decision_executed |-> executed,
     submits |-> submits, retried |-> retried]

\* the agent's decision is BUY or SELL (line 409)
IsTrade(decision) == decision.decision \in {"BUY", "SELL"}

\* a BUY or SELL that execute_trade's test of line 405 takes for a HOLD
InvalidTrade(decision) == IsTrade(decision) /\ IsHold(decision)

\* RetriesAfter with the test "if fail_reason" only: the re-analysis runs after every
\* first attempt
RetriesAfter_Always(reached, first_ok) == reached

\* lines 501-502: the re-analysis runs when the first execute_trade returned False
RetriesAfter(reached, first_ok) == reached /\ ~first_ok

\* analyze_market calls generate_trading_decision once (base_agent.py line 340); the
\* turn calls analyze_market at line 398 and, for the retry, at line 506
LlmCalls(allowed, again) == Count(allowed) + Count(again)

\* lines 486-516: the first attempt, and one more with the re-analysis when it fails
AttemptWithRetry(agent, decision, bars, order, new_decision, bars2, order2) ==
    LET r1 == execute_trade(agent, decision, bars, order) IN
    IF r1.ok
    THEN [agent |-> r1.agent,
          result |-> TurnResult(decision.decision, "none", TRUE,
                                Count(r1.submitted), FALSE)]
    ELSE IF new_decision = NoDecision
    THEN [agent |-> r1.agent,
          result |-> TurnResult(decision.decision, "none", FALSE,
                                Count(r1.submitted), FALSE)]
    ELSE LET r2 == execute_trade(r1.agent, new_decision, bars2, order2) IN
         [agent |-> r2.agent,
          result |-> TurnResult(new_decision.decision, "none", r2.ok,
                                Count(r1.submitted) + Count(r2.submitted), TRUE)]

\* lines 489 and 562: the test that guards create_exit_levels
RegistersExitLevel(executed, decision) == executed /\ decision.decision = "BUY"

\* lines 489-499 and 562-572, after the first execute_trade of a turn; the
\* percentages are those of a decision of confidence 60..84 and MEDIUM risk with
\* VIX 15..25 and a NEUTRAL smart money signal
ExitLevelsAfter(exits, agent_id, executed, decision, t) ==
    IF RegistersExitLevel(executed, decision)
    THEN create_exit_levels(exits, agent_id, decision.symbol, Cents(decision.price),
                            default_stop_loss_pct, default_take_profit_pct, t)
    ELSE exits

\* lines 383-530 for one solo agent: [agent, result]
SoloTurn(agent, allowed, decision, gates, bars, order, new_decision, bars2, order2) ==
    IF ~allowed
    THEN [agent |-> agent,
          result |-> TurnResult("HOLD", "circuit_breaker", FALSE, 0, FALSE)]
    ELSE IF ~IsTrade(decision)
    THEN [agent |-> agent,
          result |-> TurnResult(decision.decision, "none", FALSE, 0, FALSE)]
    ELSE LET blocked_by == SoloGateBlock(decision.decision, gates)
             tried == AttemptWithRetry(agent, decision, bars, order,
                                       new_decision, bars2, order2)
         IN IF Proceeds(blocked_by)
            THEN [tried EXCEPT !.result.blocked_by = blocked_by]
            ELSE [agent |-> agent,
                  result |-> TurnResult(decision.decision, blocked_by, FALSE, 0, FALSE)]

\* lines 533-582 for the consortium: [agent, result]
ConsortiumTurn(agent, allowed, decision, gates, bars, order) ==
    IF ~allowed
    THEN [agent |-> agent,
          result |-> TurnResult("HOLD", "circuit_breaker", FALSE, 0, FALSE)]
    ELSE IF ~IsTrade(decision)
    THEN [agent |-> agent,
          result |-> TurnResult(decision.decision, "none", FALSE, 0, FALSE)]
    ELSE LET blocked_by == ConsortiumGateBlock(decision.decision, gates)
             r == execute_trade(agent, decision, bars, order)
         IN IF Proceeds(blocked_by)
            THEN [agent |-> r.agent,
                  result |-> TurnResult(decision.decision, blocked_by, r.ok,
                                        Count(r.submitted), FALSE)]
            ELSE [agent |-> agent,
                  result |-> TurnResult(decision.decision, blocked_by, FALSE, 0, FALSE)]

(***************************************************************************)
(* main.check_exit_conditions_for_all_agents                               *)
(***************************************************************************)
\* pnl_amount (line 462): position is the dict _update_positions has just
\* decremented, so its qty is the quantity left after the sale; pnl_pct is in
\* thousandths
ExitPnlAmount(position, sold, pnl_pct) ==
    ((position.qty - sold) * position.avg_price[1] * pnl_pct)
        \div (position.avg_price[2] * 1000)

\* a forced exit that drops the exit level whether or not the sale succeeded
ForcedExit_AlwaysRemoves(st, n, symbol, order, pnl_pct, t) ==
    LET position == st.agents[n].positions[symbol]
        quantity == position.qty
        r == execute_trade(st.agents[n],
                           [decision |-> "SELL", symbol |-> symbol, quantity |-> quantity],
                           None, order)
        states == get_or_create_state(st.states, n, r.agent.current_capital, t)
        pnl_amount == ExitPnlAmount(position, quantity, pnl_pct)
    IN IF quantity <= 0 THEN st
       ELSE [agents |-> [st.agents EXCEPT ![n] = r.agent],
             states |-> IF r.ok
                        THEN [states EXCEPT ![n] = record_trade_result(
                                  states[n], pnl_amount, r.agent.current_capital, t)]
                        ELSE st.states,
             exits |-> remove_position(st.exits, n, symbol),
             submits |-> st.submits + Count(r.submitted)]

\* lines 441-477 for one position whose exit signal says should_exit;
\* st is [agents, states, exits, submits]
ForcedExit(st, n, symbol, order, pnl_pct, t) ==
    LET position == st.agents[n].positions[symbol]
        quantity == position.qty
        r == execute_trade(st.agents[n],
                           [decision |-> "SELL", symbol |-> symbol, quantity |-> quantity],
                           None, order)
        states == get_or_create_state(st.states, n, r.agent.current_capital, t)
        pnl_amount == ExitPnlAmount(position, quantity, pnl_pct)
    IN IF quantity <= 0 THEN st
       ELSE [agents |-> [st.agents EXCEPT ![n] = r.agent],
             states |-> IF r.ok
                        THEN [states EXCEPT ![n] = record_trade_result(
                                  states[n], pnl_amount, r.agent.current_capital, t)]
                        ELSE st.states,
             exits |-> IF r.ok THEN remove_position(st.exits, n, symbol) ELSE st.exits,
             submits |-> st.submits + Count(r.submitted)]

\* lines 421-480 for one position: x is [price, order], price None when
\* get_market_data returns nothing; an exception of check_exit_conditions is logged
SweepPosition(st, n, symbol, x, smart_money_signal, t) ==
    IF x.price = None THEN st
    ELSE LET checked == check_exit_conditions(st.exits, n, symbol, Cents(x.price),
                                              smart_money_signal, t)
             seen == [st EXCEPT !.exits = checked.exits]
         IN IF checked.signal.should_exit
            THEN ForcedExit(seen, n, symbol, x.order, checked.signal.current_pnl_pct, t)
            ELSE seen

RECURSIVE SweepPositions(_, _, _, _, _, _)
\* the loop over list(agent.positions.items()), S the symbols still to visit
SweepPositions(st, n, S, xs, smart_money_signal, t) ==
    IF S = {} THEN st
    ELSE LET symbol == CHOOSE y \in S : TRUE
         IN SweepPositions(SweepPosition(st, n, symbol, xs[symbol], smart_money_signal, t),
                           n, S \ {symbol}, xs, smart_money_signal, t)

RECURSIVE SweepAgents(_, _, _, _, _)
\* the loop over the agents, N the agents still to visit
SweepAgents(st, N, xs, smart_money_signal, t) ==
    IF N = {} THEN st
    ELSE LET n == CHOOSE y \in N : TRUE
         IN SweepAgents(SweepPositions(st, n, DOMAIN st.agents[n].positions, xs[n],
                                       smart_money_signal, t),
                        N \ {n}, xs, smart_money_signal, t)

(***************************************************************************)
(* The orchestrator: the scheduler, toggle_trading and the tick            *)
(* (main.autonomous_trading_cycle), cut at its awaits.                     *)
(***************************************************************************)
SoloAgents == {"grok"}
TickAgents == SoloAgents \cup {"consortium"}
TickSymbols == {"AAPL"}
TickQuantities == {6}
TickCloses == {100}
\* decision.get("price", 0): the prompt does not ask the LLM for a price
TickEntryPrices == {0, 100}
TickDecisions ==
    [decision : {"BUY"}, symbol : TickSymbols, quantity : TickQuantities,
     price : TickEntryPrices]
    \cup [decision : {"SELL", "HOLD"}, symbol : TickSymbols, quantity : TickQuantities,
          price : {0}]
    \cup {[decision |-> "BUY", symbol |-> "AAPL", quantity |-> 0, price |-> 100],
          [decision |-> "SELL", symbol |-> "", quantity |-> 6, price |-> 0]}
TickOrders == {NoOrder} \cup [accepted : {TRUE}, filled_avg_price : TickCloses]

\* a weekday and a Saturday; before the open, in the first half hour, in the
\* optimal window, in the afternoon, in the last quarter of an hour, at the close
NyClocks == [weekday : {2, 5}, holiday : BOOLEAN,
             minute : {9 * 60, 9 * 60 + 40, 10 * 60 + 30, 15 * 60 + 30,
                       15 * 60 + 45, 16 * 60}]

\* what the sweep reads for one position: the close of the last bar (at the
\* stop-loss, between the levels, at the take-profit) and the broker's answer
TickExitPrices == {97, 100, 106}
NoExit == [price |-> None, order |-> NoOrder]
ExitInputs == [price : TickExitPrices \cup {None}, order : TickOrders]
SmartMoneySignals == {"NEUTRAL"}

\* the sweep asks the broker only for a position whose level says should_exit
ExitInputsFor(n, symbol, smart_money_signal) ==
    IF symbol \notin DOMAIN agents[n].positions THEN {NoExit}
    ELSE {x \in ExitInputs :
            x.order # NoOrder =>
              /\ x.price # None
              /\ check_exit_conditions(position_exits, n, symbol, Cents(x.price),
                                       smart_money_signal, now).signal.should_exit}

\* the names main.py defines for the tick
ModuleFunctions == {"autonomous_trading_cycle", "check_exit_conditions_for_all_agents"}

\* evaluating a global name: false is a NameError
Resolves(name) == name \in ModuleFunctions

\* traded: the agents whose turn has appended a TradeRecord; recorded: the agents
\* for which the tick has called circuit_breaker.record_trade_result at line 364;
\* invalid: the agents whose results[name]["decision"] is a BUY or SELL without a
\* symbol or with a quantity <= 0; turn: for each solo agent, the calls of
\* llm_client.generate_trading_decision its turn has made and whether its first
\* execute_trade returned False
NewTick == [pc |-> "start", window |-> "unread", submits |-> 0, allowed |-> <<>>,
            results |-> <<>>, retry |-> <<>>, solo_gates |-> "no_order", traded |-> {},
            recorded |-> {}, invalid |-> {}, turn |-> <<>>]

Ended(tick, outcome) == [pc |-> outcome, window |-> tick.window, submits |-> tick.submits,
                         allowed |-> <<>>, results |-> <<>>, retry |-> <<>>,
                         solo_gates |-> "no_order", traded |-> tick.traded,
                         recorded |-> tick.recorded, invalid |-> {}, turn |-> <<>>]

RemoveAt(seq, i) == SubSeq(seq, 1, i - 1) \o SubSeq(seq, i + 1, Len(seq))

NextPc_SweepLast(pc) ==
    CASE pc = "start" -> "breaker"
      [] pc = "breaker" -> "solo"
      [] pc = "solo" -> "consortium"
      [] pc = "consortium" -> "exits"
      [] pc = "exits" -> "finish"

\* the order of the tick past its gate: the exit sweep (line 311), the breaker
\* check (330-344), run_trading_cycle (347: the solo turns, then the consortium),
\* the bookkeeping and the broadcast (355-374)
NextPc(pc) ==
    CASE pc = "start" -> "exits"
      [] pc = "exits" -> "breaker"
      [] pc = "breaker" -> "solo"
      [] pc = "solo" -> "consortium"
      [] pc = "consortium" -> "finish"

SchedulerSkips_Never(running) == FALSE

\* add_job without max_instances: one instance of the job at a time, a fire that
\* finds it running is skipped
SchedulerSkips(running) == Len(running) >= 1

MarketHoursBlocked_Never(info) == FALSE

\* line 296
MarketHoursBlocked(info) == ~info.can_trade

\* result.get("executed") on results[name] (line 362)
RecordsInBreaker(result) ==
    /\ result.decision \notin {"NONE", "HOLD"}
    /\ "executed" \in DOMAIN result
    /\ result.executed

InitTick ==
    /\ now = 0
    /\ agent_states = <<>>
    /\ last = NoCall
    /\ agents = [n \in TickAgents |-> NewAgent(capital_per_agent)]
    /\ trade = NoTrade
    /\ TickIdle

\* the interval trigger of job 'trading_cycle' fires
SchedulerFire ==
    /\ sched.fired < MaxTicks
    /\ IF SchedulerSkips(ticks)
       THEN /\ sched' = [fired |-> sched.fired + 1, last |-> "skipped"]
            /\ UNCHANGED ticks
       ELSE /\ sched' = [fired |-> sched.fired + 1, last |-> "run"]
            /\ ticks' = Append(ticks, NewTick)
    /\ UNCHANGED <<earnings_cache, now, supabase, agent_states, last, agents, trade, trading_state, done, broadcast,
                   position_exits>>

\* POST /api/trading/toggle
ToggleTrading ==
    \E active \in BOOLEAN :
        /\ IF active /\ ~trading_state.active
           THEN /\ trading_state' = [trading_state EXCEPT !.active = TRUE]
                /\ IF Resolves("trading_cycle")
                   THEN /\ ticks' = Append(ticks, NewTick)
                        /\ broadcast' = "trading_enabled"
                   ELSE UNCHANGED <<ticks, broadcast>>
           ELSE IF ~active /\ trading_state.active
           THEN /\ trading_state' = [trading_state EXCEPT !.active = FALSE]
                /\ broadcast' = "trading_disabled"
                /\ UNCHANGED ticks
           ELSE UNCHANGED <<trading_state, ticks, broadcast>>
        /\ UNCHANGED <<earnings_cache, now, supabase, agent_states, last, agents, trade, done, sched, position_exits>>

\* a test of line 282 that lets every tick pass
Inactive_Never(state) == FALSE

\* line 282: not trading_state["active"]
Inactive(state) == ~state.active

\* lines 282-306: the active test and the market clock gate
TickStart ==
    \E i \in 1..Len(ticks) :
        LET tick == ticks[i] IN
        /\ tick.pc = "start"
        /\ IF Inactive(trading_state)
           THEN /\ ticks' = RemoveAt(ticks, i)
                /\ done' = Ended(tick, "inactive")
                /\ UNCHANGED broadcast
           ELSE \E clock \in NyClocks :
                  LET info == get_market_hours_info(clock)
                      read == [tick EXCEPT !.window = IF info.can_trade
                                                      THEN "open" ELSE "blocked"]
                  IN IF MarketHoursBlocked(info)
                     THEN /\ ticks' = RemoveAt(ticks, i)
                          /\ done' = Ended(read, "market_hours_blocked")
                          /\ broadcast' = "market_hours_blocked"
                     ELSE /\ ticks' = [ticks EXCEPT ![i] = [read EXCEPT !.pc = NextPc("start")]]
                          /\ UNCHANGED <<done, broadcast>>
        /\ UNCHANGED <<earnings_cache, now, supabase, agent_states, last, agents, trade, trading_state, sched,
                       position_exits>>

\* line 311: the exit sweep
TickExits ==
    \E i \in 1..Len(ticks) :
        LET tick == ticks[i] IN
        /\ tick.pc = "exits"
        /\ \E smart_money_signal \in SmartMoneySignals :
           \E xs \in [DOMAIN agents -> [TickSymbols -> ExitInputs]] :
             /\ \A n \in DOMAIN agents, s \in TickSymbols :
                  xs[n][s] \in ExitInputsFor(n, s, smart_money_signal)
             /\ LET st == SweepAgents([agents |-> agents, states |-> agent_states,
                                       exits |-> position_exits,
                                       submits |-> tick.submits],
                                      DOMAIN agents, xs, smart_money_signal, now)
                IN /\ agents' = st.agents
                   /\ agent_states' = st.states
                   /\ position_exits' = st.exits
                   /\ ticks' = [ticks EXCEPT ![i] = [tick EXCEPT !.pc = NextPc("exits"),
                                                                 !.submits = st.submits]]
        /\ UNCHANGED <<earnings_cache, now, supabase, last, trade, trading_state, done, sched, broadcast>>

\* circuit_breaker.can_trade(agent.db_id, agent.current_capital) of line 334
BreakerCheck(n) ==
    can_trade(get_or_create_state(agent_states, n, agents[n].current_capital, now)[n],
              agents[n].current_capital, now)

\* lines 330-344: agents_allowed
TickBreaker ==
    \E i \in 1..Len(ticks) :
        LET tick == ticks[i] IN
        /\ tick.pc = "breaker"
        /\ agent_states' = [n \in DOMAIN agent_states \cup DOMAIN agents |->
                               IF n \in DOMAIN agents THEN BreakerCheck(n).state
                               ELSE agent_states[n]]
        /\ ticks' = [ticks EXCEPT ![i] =
                        [tick EXCEPT !.pc = NextPc("breaker"),
                                     !.allowed = [n \in DOMAIN agents |-> BreakerCheck(n).ok]]]
        /\ UNCHANGED <<earnings_cache, now, supabase, last, agents, trade, trading_state, done, sched, broadcast,
                       position_exits>>

\* what a turn asks of the LLM, the gate services, the bars and the broker: only
\* the answers the turn reads vary
\* the prompt shows the LLM the agent's positions: it answers SELL for a symbol the
\* agent holds (a SELL of a symbol that is not held is a case of SpecAgent)
DecisionsFor(allowed, agent) ==
    IF allowed
    THEN {x \in TickDecisions :
            (x.decision = "SELL" /\ ~IsHold(x)) => x.symbol \in DOMAIN agent.positions}
         \cup {NoDecision}
    ELSE {NoDecision}
GatesFor(allowed, d) ==
    IF allowed /\ IsTrade(d) THEN Gates
    ELSE {[technical_blocked |-> FALSE, earnings_avoid |-> FALSE, should_proceed |-> TRUE]}
TickBarsFor(reached, d) ==
    IF reached /\ d.decision = "BUY" THEN TickCloses \cup {None} ELSE {None}
TickOrdersFor(reached, agent, d, bars) ==
    IF reached /\ ~IsHold(d) /\ ~BuyRefused(agent, d, bars) THEN TickOrders ELSE {NoOrder}

\* the second attempt of a turn (lines 506-515) as the tick records it when it
\* reaches submit_order: the decision of the re-analysis and what the gates of
\* lines 413-483 answer when asked about it
RetryOf(agent_id, agent, new_decision, gates, bars, order) ==
    IF execute_trade(agent, new_decision, bars, order).submitted
    THEN agent_id :> [decision |-> new_decision.decision,
                      gates |-> SoloGateBlock(new_decision.decision, gates)]
    ELSE <<>>

\* the gate verdicts vary only for a retry that reaches submit_order
RetryGatesFor(again, agent, new_decision, bars) ==
    GatesFor(again /\ ~IsHold(new_decision) /\ ~BuyRefused(agent, new_decision, bars),
             new_decision)

\* decision.get("confidence", 50) and the VIX of smart_money_data, 20 when absent
DefaultConfidence == 50
DefaultVix == 20

\* decision["kelly_amount"] (base_agent.py:349-366) of a decision that names no
\* confidence and no risk level, for an agent without statistics, on a calm day
KellyAmountOf(agent) ==
    calculate_position_size(DefaultStatistics, agent.current_capital, DefaultConfidence,
                            "MEDIUM", DefaultVix, "NEUTRAL", 0, 0).recommended_amount

\* decision["sizing_multiplier"] (manager_agent.py:477) when the combiner keeps the
\* confidence and the smart money and memory scores are neutral
SizingMultiplierOf(confidence) == _calculate_sizing_multiplier(confidence, 0, 0)

\* the quantity a turn adds to a position
BoughtQty(before, after, symbol) ==
    IF symbol \notin DOMAIN after.positions THEN 0
    ELSE after.positions[symbol].qty
           - (IF symbol \in DOMAIN before.positions
              THEN before.positions[symbol].qty ELSE 0)

\* the turn has appended a TradeRecord to the agent's history (line 453)
Traded(before, after) == after.trade_count > before.trade_count

\* line 383: self.agents without the consortium, which line 384 skips
SoloAgentsOf(all) == DOMAIN all \ {"consortium"}

\* lines 383-530: the turn of the next solo agent
TickSolo ==
    \E i \in 1..Len(ticks) :
        LET tick == ticks[i]
            n == CHOOSE a \in SoloAgentsOf(agents) : a \notin DOMAIN tick.results
            allowed == tick.allowed[n]
        IN
        /\ tick.pc = "solo"
        /\ \E d \in DecisionsFor(allowed, agents[n]) : \E g \in GatesFor(allowed, d) :
             LET reached == allowed /\ IsTrade(d) /\ Proceeds(SoloGateBlock(d.decision, g)) IN
             \E bars \in TickBarsFor(reached, d) :
             \E order \in TickOrdersFor(reached, agents[n], d, bars) :
               LET first == execute_trade(agents[n], d, bars, order)
                   again == RetriesAfter(reached, first.ok)
               IN
               \E d2 \in DecisionsFor(again, first.agent) :
               \E bars2 \in TickBarsFor(again, d2) :
               \E g2 \in RetryGatesFor(again, first.agent, d2, bars2) :
               \E order2 \in TickOrdersFor(again /\ d2 # NoDecision, first.agent, d2, bars2) :
                 LET r == SoloTurn(agents[n], allowed, d, g, bars, order, d2, bars2, order2)
                     results == tick.results @@ (n :> r.result)
                     retry == IF again /\ d2 # NoDecision
                              THEN RetryOf(n, first.agent, d2, g2, bars2, order2)
                              ELSE <<>>
                 IN /\ agents' = [agents EXCEPT ![n] = r.agent]
                    /\ position_exits' = ExitLevelsAfter(position_exits, n,
                                                         reached /\ first.ok, d, now)
                    /\ ticks' = [ticks EXCEPT ![i] =
                          [tick EXCEPT !.results = results,
                                       !.retry = @ @@ retry,
                                       !.turn = @ @@ (n :>
                                           [llm_calls |-> LlmCalls(allowed, again),
                                            first_failed |-> reached /\ ~first.ok]),
                                       !.invalid =
                                           IF InvalidTrade(IF again /\ d2 # NoDecision
                                                           THEN d2 ELSE d)
                                           THEN @ \cup {n} ELSE @,
                                       !.traded = IF Traded(agents[n], r.agent)
                                                  THEN @ \cup {n} ELSE @,
                                       !.submits = @ + r.result.submits,
                                       !.pc = IF SoloAgentsOf(agents) \subseteq DOMAIN results
                                              THEN NextPc("solo") ELSE "solo"]]
        /\ UNCHANGED <<earnings_cache, now, supabase, agent_states, last, trade, trading_state, done, sched, broadcast>>

\* results[name] = {"error": str(e)} of line 530
ErrorResult == [decision |-> "NONE", blocked_by |-> "none", decision_executed |-> FALSE,
                submits |-> 0, retried |-> FALSE, error |-> TRUE]

\* the turn without the except clause of line 528: the exception leaves
\* run_trading_cycle and the tick's own handler broadcasts it (main.py 376-382)
TickSoloRaises_Propagates ==
    \E i \in 1..Len(ticks) :
        LET tick == ticks[i]
            n == CHOOSE a \in (DOMAIN agents \ {"consortium"}) : a \notin DOMAIN tick.results
        IN
        /\ tick.pc = "solo"
        /\ tick.allowed[n]
        /\ ticks' = RemoveAt(ticks, i)
        /\ done' = Ended(tick, "error")
        /\ broadcast' = "error"
        /\ UNCHANGED <<earnings_cache, now, supabase, agent_states, last, agents, trade,
                       trading_state, sched, position_exits>>

\* lines 396-403 and 528-530: the turn of the next solo agent when analyze_market
\* raises (the LLM client fails): the except clause logs and records the error
TickSoloRaises ==
    \E i \in 1..Len(ticks) :
        LET tick == ticks[i]
            n == CHOOSE a \in SoloAgentsOf(agents) : a \notin DOMAIN tick.results
            results == tick.results @@ (n :> ErrorResult)
        IN
        /\ tick.pc = "solo"
        /\ tick.allowed[n]
        /\ ticks' = [ticks EXCEPT ![i] =
              [tick EXCEPT !.results = results,
                           !.turn = @ @@ (n :> [llm_calls |-> 1, first_failed |-> FALSE]),
                           !.pc = IF SoloAgentsOf(agents) \subseteq DOMAIN results
                                  THEN NextPc("solo") ELSE "solo"]]
        /\ UNCHANGED <<earnings_cache, now, supabase, agent_states, last, agents, trade,
                       trading_state, done, sched, broadcast, position_exits>>

\* what the gates of a solo agent's turn (lines 413-483) answer for the
\* decision of a consortium turn that has reached submit_order
SoloGatesOn(result, decision, gates) ==
    IF result.submits > 0 THEN SoloGateBlock(decision.decision, gates)
    ELSE "no_order"

\* lines 533-582: the consortium's turn
TickConsortium ==
    \E i \in 1..Len(ticks) :
        LET tick == ticks[i]
            n == "consortium"
            allowed == tick.allowed[n]
        IN
        /\ tick.pc = "consortium"
        /\ \E d \in DecisionsFor(allowed, agents[n]) : \E g \in GatesFor(allowed, d) :
             LET reached == allowed /\ IsTrade(d)
                              /\ Proceeds(ConsortiumGateBlock(d.decision, g)) IN
             \E bars \in TickBarsFor(reached, d) :
             \E order \in TickOrdersFor(reached, agents[n], d, bars) :
               LET r == ConsortiumTurn(agents[n], allowed, d, g, bars, order) IN
               /\ agents' = [agents EXCEPT ![n] = r.agent]
               /\ position_exits' = ExitLevelsAfter(position_exits, n,
                                                    r.result.decision_executed, d, now)
               /\ ticks' = [ticks EXCEPT ![i] =
                     [tick EXCEPT !.results = @ @@ (n :> r.result),
                                  !.solo_gates = SoloGatesOn(r.result, d, g),
                                  !.invalid = IF InvalidTrade(d) THEN @ \cup {n} ELSE @,
                                  !.traded = IF Traded(agents[n], r.agent)
                                             THEN @ \cup {n} ELSE @,
                                  !.submits = @ + r.result.submits,
                                  !.pc = NextPc("consortium")]]
        /\ UNCHANGED <<earnings_cache, now, supabase, agent_states, last, trade, trading_state, done, sched, broadcast>>

\* lines 355-374: the breaker's bookkeeping and the trading_cycle broadcast
TickFinish ==
    \E i \in 1..Len(ticks) :
        LET tick == ticks[i] IN
        /\ tick.pc = "finish"
        /\ LET recorded == {n \in DOMAIN tick.results : RecordsInBreaker(tick.results[n])}
           IN /\ agent_states' =
                   [n \in DOMAIN agent_states |->
                      IF n \in recorded
                      THEN record_trade_result(agent_states[n], 0,
                                               agents[n].current_capital, now)
                      ELSE agent_states[n]]
              /\ done' = Ended([tick EXCEPT !.recorded = recorded], "trading_cycle")
        /\ broadcast' = "trading_cycle"
        /\ ticks' = RemoveAt(ticks, i)
        /\ UNCHANGED <<earnings_cache, now, supabase, last, agents, trade, trading_state, sched, position_exits>>

NextTick ==
    \/ SchedulerFire
    \/ ToggleTrading
    \/ TickStart
    \/ TickExits
    \/ TickBreaker
    \/ TickSolo
    \/ TickSoloRaises
    \/ TickConsortium
    \/ TickFinish

SpecTick == InitTick /\ [][NextTick]_vars

(***************************************************************************)
(* One tick of a manager with two solo agents and the consortium, from the *)
(* point where trading is active and the market clock has let it pass.     *)
(***************************************************************************)
CycleAgents == {"grok", "gpt", "consortium"}

InitCycle ==
    /\ now = 0
    /\ agent_states = <<>>
    /\ last = NoCall
    /\ agents = [n \in CycleAgents |-> NewAgent(capital_per_agent)]
    /\ trade = NoTrade
    /\ trading_state = [active |-> TRUE]
    /\ ticks = <<[NewTick EXCEPT !.pc = NextPc("start"), !.window = "open"]>>
    /\ done = NoTick
    /\ sched = [fired |-> 1, last |-> "run"]
    /\ broadcast = "none"
    /\ position_exits = <<>>
    /\ supabase = NoRows
    /\ earnings_cache = <<>>

NextCycle ==
    \/ TickExits
    \/ TickBreaker
    \/ TickSolo
    \/ TickSoloRaises
    \/ TickConsortium
    \/ TickFinish

SpecCycle == InitCycle /\ [][NextCycle]_vars

(***************************************************************************)
(* Circuit breaker claims.                                                 *)
(***************************************************************************)
PAUSED == {"PAUSED_DAILY", "PAUSED_WEEKLY", "PAUSED_CONSECUTIVE"}

\* this step is a call of can_trade for agent a that found a state for it
CanTradeStep(a) ==
    /\ a \in DOMAIN agent_states
    /\ last'.flip # last.flip
    /\ last'.op = "can_trade"
    /\ last'.agent = a

\* the start capitals the call compares with: those of the day and week of the call
DailyStartAtCall(a) ==
    IF Date(agent_states[a].last_reset_daily) < Date(now)
    THEN last'.capital ELSE agent_states[a].daily_start_capital

WeeklyStartAtCall(a) ==
    IF (now - agent_states[a].last_reset_weekly) >= 7 * 24
    THEN last'.capital ELSE agent_states[a].weekly_start_capital

DailyDown(a) == (DailyStartAtCall(a) - last'.capital) * 100 >= 5 * DailyStartAtCall(a)

WeeklyDown(a) == (WeeklyStartAtCall(a) - last'.capital) * 100 >= 10 * WeeklyStartAtCall(a)

\* the agent is not in a running pause when the call is made
NotPausedAtCall(a) ==
    \/ agent_states[a].status = "ACTIVE"
    \/ agent_states[a].pause_until <= now

\* C3: while an agent's status is PAUSED_* and pause_until > now, every can_trade
\* call for it returns false.
C3_PausedCannotTrade ==
    [][\A a \in BreakerAgents :
          (/\ CanTradeStep(a)
           /\ agent_states[a].status \in PAUSED
           /\ agent_states[a].pause_until > now)
          => /\ last'.ok = FALSE
             /\ agent_states'[a].status = agent_states[a].status
             /\ agent_states'[a].pause_until = agent_states[a].pause_until]_vars

\* a can_trade call later than the pause's start was refused because of the pause
C3_Witness ==
    /\ last.op = "can_trade" /\ last.reason = "PAUSED" /\ ~last.ok
    /\ \E a \in DOMAIN agent_states :
          /\ last.agent = a
          /\ agent_states[a].status = "PAUSED_DAILY"
          /\ agent_states[a].pause_until > now
          /\ now > agent_states[a].pause_until - 24

\* the step follows the recording of the 5th consecutive loss of agent a
AfterFifthLoss(a) ==
    /\ CanTradeStep(a)
    /\ last.op = "record_trade_result" /\ last.agent = a
    /\ agent_states[a].consecutive_losses = 5

\* C4 as stated: after exactly 5 consecutive losing results, the next can_trade call
\* returns false and sets pause_until to now + 4 hours.
C4_Original ==
    [][\A a \in BreakerAgents :
          AfterFifthLoss(a)
          => /\ last'.ok = FALSE
             /\ agent_states'[a].pause_until = now + 4]_vars

\* C4 amended: for an agent that is not paused, the next can_trade call after the 5th
\* consecutive loss returns false; it sets PAUSED_CONSECUTIVE with pause_until =
\* now + 4 hours unless a drawdown limit is breached at that call, which pauses the
\* agent for 24 hours (daily) or 7 days (weekly) instead.
C4_FifthLossPauses ==
    [][\A a \in BreakerAgents :
          (AfterFifthLoss(a) /\ agent_states[a].status = "ACTIVE")
          => /\ last'.ok = FALSE
             /\ agent_states'[a].status \in PAUSED
             /\ (~DailyDown(a) /\ ~WeeklyDown(a))
                => /\ agent_states'[a].status = "PAUSED_CONSECUTIVE"
                   /\ agent_states'[a].pause_until = now + 4
             /\ DailyDown(a) => agent_states'[a].pause_until = now + 24
             /\ (~DailyDown(a) /\ WeeklyDown(a))
                => agent_states'[a].pause_until = now + 7 * 24]_vars

\* can_trade has just paused an agent for its 5 consecutive losses
C4_Witness ==
    /\ last.op = "can_trade" /\ last.reason = "CONSECUTIVE" /\ ~last.ok
    /\ last.pre_status = "ACTIVE"
    /\ \E a \in DOMAIN agent_states :
          /\ last.agent = a
          /\ agent_states[a].consecutive_losses = 5
          /\ agent_states[a].status = "PAUSED_CONSECUTIVE"
          /\ agent_states[a].pause_until = now + 4

\* C5: the first can_trade call made once pause_until has elapsed sets the agent
\* back to ACTIVE, resets consecutive_losses to 0 and returns true, provided no
\* drawdown threshold is breached at that moment.
C5_PauseAutoReleases ==
    [][\A a \in BreakerAgents :
          (/\ CanTradeStep(a)
           /\ agent_states[a].status \in PAUSED
           /\ agent_states[a].pause_until <= now
           /\ ~DailyDown(a) /\ ~WeeklyDown(a))
          => /\ last'.ok = TRUE
             /\ agent_states'[a].status = "ACTIVE"
             /\ agent_states'[a].pause_until = None
             /\ agent_states'[a].consecutive_losses = 0]_vars

\* a pause for consecutive losses has been released at its deadline
C5_Witness ==
    /\ last.op = "can_trade" /\ last.ok
    /\ last.pre_status = "PAUSED_CONSECUTIVE"
    /\ \E a \in DOMAIN agent_states :
          /\ last.agent = a
          /\ agent_states[a].status = "ACTIVE"
          /\ agent_states[a].consecutive_losses = 0

\* C6 as stated: a non-paused agent at least 5% below its daily start capital is
\* paused for 24 hours, and one at least 10% below its weekly start capital is paused
\* for 7 days.
C6_Original ==
    [][\A a \in BreakerAgents :
          (CanTradeStep(a) /\ NotPausedAtCall(a))
          => /\ DailyDown(a)
                => /\ agent_states'[a].status = "PAUSED_DAILY"
                   /\ agent_states'[a].pause_until = now + 24
             /\ WeeklyDown(a)
                => /\ agent_states'[a].status = "PAUSED_WEEKLY"
                   /\ agent_states'[a].pause_until = now + 7 * 24]_vars

\* C6 amended: the daily check comes first. A non-paused agent at least 5% below its
\* daily start capital is paused for 24 hours; one at least 10% below its weekly
\* start capital and less than 5% below its daily start capital is paused for 7 days.
C6_DrawdownPauses ==
    [][\A a \in BreakerAgents :
          (CanTradeStep(a) /\ NotPausedAtCall(a))
          => /\ DailyDown(a)
                => /\ last'.ok = FALSE
                   /\ agent_states'[a].status = "PAUSED_DAILY"
                   /\ agent_states'[a].pause_until = now + 24
             /\ (WeeklyDown(a) /\ ~DailyDown(a))
                => /\ last'.ok = FALSE
                   /\ agent_states'[a].status = "PAUSED_WEEKLY"
                   /\ agent_states'[a].pause_until = now + 7 * 24]_vars

\* can_trade has paused an agent for 7 days on its weekly drawdown
C6_Witness ==
    /\ last.op = "can_trade" /\ last.reason = "WEEKLY" /\ ~last.ok
    /\ \E a \in DOMAIN agent_states :
          /\ last.agent = a
          /\ agent_states[a].status = "PAUSED_WEEKLY"
          /\ agent_states[a].pause_until = now + 7 * 24
          /\ (agent_states[a].weekly_start_capital - last.capital) * 100
                >= 10 * agent_states[a].weekly_start_capital

(***************************************************************************)
(* Claims about the agent's accounting (SpecAgent).                        *)
(***************************************************************************)
RECURSIVE SumOver(_, _)
\* the sum of f[k].qty * f[k].avg_price over the keys in S, as a fraction
SumOver(f, S) ==
    IF S = {} THEN FracOfInt(0)
    ELSE LET k == CHOOSE x \in S : TRUE
         IN FracAdd(FracTimes(f[k].avg_price, f[k].qty), SumOver(f, S \ {k}))

\* positions valued at their average entry price
PositionsValue(agent) == SumOver(agent.positions, DOMAIN agent.positions)

\* current_capital + sum(qty * price) - (initial_capital + realized pnl - total_fees)
Imbalance(agent) ==
    FracSub(FracAdd(FracOfInt(agent.current_capital), PositionsValue(agent)),
            FracAdd(FracOfInt(agent.initial_capital - agent.total_fees),
                    agent.total_profit))

ExecutedBuyOrSell ==
    /\ trade'.decision \in {"BUY", "SELL"}
    /\ trade'.submitted /\ trade'.ok

\* C7: the accounting identity current_capital + sum(qty * price) =
\* initial_capital + realized_pnl - total_fees, with positions valued at their
\* entry price, is kept by every executed BUY and every executed SELL (it holds at
\* construction, so it would hold after any sequence of them).
C7_IdentityKept ==
    [][\A n \in AgentNames :
         ExecutedBuyOrSell /\ trade'.agent = n
           => Imbalance(agents'[n]) = Imbalance(agents[n])]_vars

\* C8: current_capital never goes below zero.
C8_CapitalNonNegative ==
    \A n \in AgentNames : agents[n].current_capital >= 0

\* C9: the positions map holds no entry whose qty is zero or negative.
C9_NoEmptyPosition ==
    \A n \in AgentNames :
      \A s \in DOMAIN agents[n].positions : agents[n].positions[s].qty > 0

\* a SELL has just sold out a held position (which is gone from the map) while
\* another position is still open
C9_Witness ==
    \E n \in AgentNames :
      /\ trade.agent = n /\ trade.decision = "SELL" /\ trade.submitted /\ trade.ok
      /\ agents[n].winning_trades + agents[n].losing_trades >= 1
      /\ "AAPL" \notin DOMAIN agents[n].positions
      /\ "NVDA" \in DOMAIN agents[n].positions

(***************************************************************************)
(* Claims about the tick (SpecTick).                                       *)
(***************************************************************************)
\* the runs of the tick the state shows: those in flight and the last one ended
Observed == {ticks[i] : i \in 1..Len(ticks)} \cup {done}

\* C1: a tick for which the market clock reported can_trade = false has made no
\* submit_order call, in the exit sweep, in a solo agent's turn or in the
\* consortium's.
C1_BlockedTickSubmitsNothing ==
    \A tick \in Observed : tick.window = "blocked" => tick.submits = 0

\* a tick has ended at the market clock gate while trading was active and an
\* agent held a position the exit sweep would have looked at
C1_Witness ==
    /\ done.pc = "market_hours_blocked"
    /\ done.window = "blocked"
    /\ trading_state.active
    /\ \E n \in TickAgents : DOMAIN agents[n].positions # {}

\* C2: a decision rejected by the circuit breaker, a technical gate, the
\* earnings check or the signal combiner has no order placed for it in its tick,
\* and a tick rejected by market hours holds no decision at all.
C2_RejectedDecisionPlacesNoOrder ==
    \A tick \in Observed :
      /\ \A n \in DOMAIN tick.results :
            tick.results[n].blocked_by # "none" =>
              tick.results[n].submits = 0 /\ ~tick.results[n].decision_executed
      /\ tick.window = "blocked" => tick.results = <<>>

\* in one tick the breaker has blocked a solo agent and the signal combiner has
\* rejected the consortium's BUY or SELL
C2_Witness ==
    \E i \in 1..Len(ticks) :
      /\ "consortium" \in DOMAIN ticks[i].results
      /\ ticks[i].results["grok"].blocked_by = "circuit_breaker"
      /\ ticks[i].results["consortium"].blocked_by = "signal_combiner"
      /\ ticks[i].results["consortium"].decision \in {"BUY", "SELL"}

C11_RetryPassesGates ==
    \A i \in 1..Len(ticks) : \A n \in DOMAIN ticks[i].retry :
        ticks[i].retry[n].gates = "none"

\* C12: the consortium's BUY or SELL meets the gates of a solo agent's decision:
\* a consortium order is submitted only when the technical gates, the earnings
\* check and the signal combiner let the decision through.
C12_ConsortiumMeetsSoloGates ==
    \A i \in 1..Len(ticks) :
        ("consortium" \in DOMAIN ticks[i].results
            /\ ticks[i].results["consortium"].submits > 0)
        => ticks[i].solo_gates = "none"

\* C13: within a tick the exit sweep completes before any decision is made: a
\* tick that holds the result of a turn is past its sweep, so a forced SELL of a
\* symbol precedes any BUY the same agent decides in that tick.
C13_SweepBeforeDecisions ==
    \A i \in 1..Len(ticks) :
        ticks[i].results # <<>> => ticks[i].pc \in {"solo", "consortium", "finish"}

\* in one tick the sweep has sold grok's AAPL position (the sale is the only order
\* of the tick besides grok's own, and the breaker has recorded it) and grok has
\* then bought AAPL again
C13_Witness ==
    \E i \in 1..Len(ticks) :
      /\ DOMAIN ticks[i].results = {"grok"}
      /\ ticks[i].results["grok"].decision = "BUY"
      /\ ticks[i].results["grok"].decision_executed
      /\ ticks[i].results["grok"].submits = 1
      /\ ticks[i].submits = 2
      /\ agents["consortium"].trade_count = 0
      /\ agents["grok"].trade_count = 3
      /\ "AAPL" \in DOMAIN agents["grok"].positions
      /\ agent_states["grok"].consecutive_losses >= 1

\* C14: every position opened by an executed BUY, by whichever path of the tick,
\* has an ExitLevel registered for its (agent, symbol) when the next exit sweep
\* looks at it.
C14_BoughtPositionHasExitLevel ==
    \A i \in 1..Len(ticks) :
        ticks[i].pc = "exits" =>
            \A n \in TickAgents : \A symbol \in DOMAIN agents[n].positions :
                HasExitLevel(position_exits, n, symbol)

\* C15: every trade filled through an agent's decision path in a tick is recorded
\* into the circuit breaker: when the tick ends, record_trade_result has been
\* called for every agent whose turn has filled a trade.
C15_FilledTradeRecorded ==
    done.pc = "trading_cycle" => done.traded \subseteq done.recorded

\* C16: for every BUY that reaches the broker on the decision path, the quantity
\* submitted is the Kelly-derived size scaled by the sizing multiplier (the shares
\* that kelly_amount * sizing_multiplier buys at the close), not the quantity the
\* LLM proposed.
C16_SubmittedQtyIsKelly ==
    [][\A i \in 1..Len(ticks) : \A n \in SoloAgents : \A symbol \in TickSymbols :
         (ticks[i].pc = "solo" /\ Traded(agents[n], agents'[n])
              /\ BoughtQty(agents[n], agents'[n], symbol) > 0)
         => \A close \in TickCloses :
               BoughtQty(agents[n], agents'[n], symbol)
                 = KellyQuantity(KellyAmountOf(agents[n]),
                                 SizingMultiplierOf(DefaultConfidence), close)]_vars

(***************************************************************************)
(* MemoryService over the tables trade_memories and winning_patterns       *)
(* (core/memory_service.py, core/winning_patterns_service.py). A row's id  *)
(* is its index in the table, and rows are inserted in created_at order.   *)
(* A null column is None, a null pnl is NoPnl, a boolean column is 0 or 1. *)
(* The stored procedure update_agent_statistics is not part of the sources *)
(* and its table is not kept.                                              *)
(***************************************************************************)
NoPnl == <<>>

Bool(b) == IF b THEN 1 ELSE 0

\* create_trade_memory: the insert into trade_memories
create_trade_memory(db, agent_id, symbol, decision, entry_price, quantity, t) ==
    [db EXCEPT !.trade_memories =
        Append(@, [agent_id |-> agent_id, symbol |-> symbol, decision |-> decision,
                   entry_price |-> entry_price, quantity |-> quantity, created_at |-> t,
                   exit_price |-> None, pnl |-> NoPnl, pnl_percent |-> NoPnl,
                   success |-> None, holding_duration_hours |-> None,
                   closed_at |-> None])]

RECURSIVE NewestFirst(_)
\* order('created_at', desc=True) over a set of row ids
NewestFirst(S) ==
    IF S = {} THEN <<>>
    ELSE LET i == CHOOSE i \in S : \A j \in S : j <= i
         IN <<i>> \o NewestFirst(S \ {i})

\* limit(limit)
Limit(s, limit) == IF Len(s) <= limit THEN s ELSE SubSeq(s, 1, limit)

\* get_similar_trades with a symbol: the ids of the agent's closed memories of the
\* symbol (success is not null), newest first
get_similar_trades(db, agent_id, symbol, limit) ==
    Limit(NewestFirst({i \in 1..Len(db.trade_memories) :
                          /\ db.trade_memories[i].agent_id = agent_id
                          /\ db.trade_memories[i].success # None
                          /\ db.trade_memories[i].symbol = symbol}),
          limit)

\* record_winning_trade: the insert into winning_patterns
_record_winning_pattern(db, memory_id, memory, exit_price, pnl) ==
    [db EXCEPT !.winning_patterns =
        Append(@, [agent_id |-> memory.agent_id, trade_id |-> memory_id,
                   symbol |-> memory.symbol, exit_price |-> exit_price, pnl |-> pnl])]

\* pnl_percent > 0.5
MinWinPct == <<1, 2>>

\* close_trade_memory by memory_id: [db, ok]. The row is read, the result is
\* computed and written, and a winning trade is recorded as a pattern.
close_trade_memory(db, memory_id, exit_price, pnl, t) ==
    IF memory_id \notin 1..Len(db.trade_memories)
    THEN [db |-> db, ok |-> FALSE]
    ELSE LET memory == db.trade_memories[memory_id]
             exit == IF exit_price = None THEN memory.entry_price ELSE exit_price
             p == IF pnl # NoPnl THEN pnl
                  ELSE IF memory.decision = "BUY"
                  THEN FracOfInt((exit - memory.entry_price) * memory.quantity)
                  ELSE FracOfInt((memory.entry_price - exit) * memory.quantity)
             cost == memory.entry_price * memory.quantity
             pnl_percent == IF cost > 0 THEN Frac(p[1] * 100, p[2] * cost) ELSE FracOfInt(0)
             success == FracPositive(p)
             updated == [memory EXCEPT !.exit_price = exit,
                                       !.pnl = p,
                                       !.pnl_percent = pnl_percent,
                                       !.success = Bool(success),
                                       !.holding_duration_hours = t - memory.created_at,
                                       !.closed_at = t]
             closed == [db EXCEPT !.trade_memories[memory_id] = updated]
         IN [db |-> IF success /\ FracLess(MinWinPct, pnl_percent)
                    THEN _record_winning_pattern(closed, memory_id, memory, exit, p)
                    ELSE closed,
             ok |-> TRUE]

RECURSIVE CloseMemories(_, _, _, _, _)
\* the loop over open_memories of _update_positions
CloseMemories(db, open_memories, price, pnl, t) ==
    IF open_memories = <<>> THEN db
    ELSE CloseMemories(close_trade_memory(db, Head(open_memories), price, pnl, t).db,
                       Tail(open_memories), price, pnl, t)

\* the memory part of _update_positions, reached by the sale of a held symbol
MemoryAfterSale(db, agent_id, agent, symbol, quantity, price, t) ==
    LET memories == get_similar_trades(db, agent_id, symbol, 1)
        open_memories == SelectSeq(memories, LAMBDA i : db.trade_memories[i].success = None)
        pnl == FracTimes(FracSub(FracOfInt(price), agent.positions[symbol].avg_price),
                         quantity)
    IN CloseMemories(db, open_memories, price, pnl, t)

\* the tables after execute_trade: agent is the agent before the call, r the call's
\* result. An accepted order closes memories in _update_positions and then creates
\* the memory of the trade.
MemoryAfterTrade(db, agent_id, agent, decision, order, r, t) ==
    IF ~(r.ok /\ r.submitted) THEN db
    ELSE LET sold == IF decision.decision = "SELL" /\ decision.symbol \in DOMAIN agent.positions
                     THEN MemoryAfterSale(db, agent_id, agent, decision.symbol,
                                          decision.quantity, FillPrice(order), t)
                     ELSE db
         IN create_trade_memory(sold, agent_id, decision.symbol, decision.decision,
                                FillPrice(order), decision.quantity, t)

(***************************************************************************)
(* One agent trading one symbol with the memory service initialized, and   *)
(* callers of close_trade_memory.                                          *)
(***************************************************************************)
MaxMemories == 2
MaxPatterns == 1

MemoryDecisions == [decision : {"BUY", "SELL"}, symbol : {"AAPL"}, quantity : {1}]
MemoryOrders == {o \in Orders : o.accepted => o.filled_avg_price = 100}
MemoryInstants == {0, 4}
CloseExitPrices == {None, 120}

InitMemory ==
    /\ now = 0
    /\ agent_states = <<>>
    /\ last = NoCall
    /\ agents = [n \in AgentNames |-> NewAgent(capital_per_agent)]
    /\ trade = NoTrade
    /\ TickIdle

TradeWithMemory ==
    \E n \in AgentNames, d \in MemoryDecisions :
      \E bars \in BarsFor(d) :
        \E order \in OrdersFor(agents[n], d, bars) \cap MemoryOrders :
          LET r == execute_trade(agents[n], d, bars, order) IN
          /\ r.agent.trade_count <= MaxMemories
          /\ agents' = [agents EXCEPT ![n] = r.agent]
          /\ supabase' = MemoryAfterTrade(supabase, n, agents[n], d, order, r, now)
          /\ trade' = [agent |-> n, decision |-> d.decision, ok |-> r.ok,
                       submitted |-> r.submitted, filled |-> r.filled,
                       symbol |-> d.symbol]
          /\ UNCHANGED <<earnings_cache, now, agent_states, last, trading_state, ticks, done, sched,
                         broadcast, position_exits>>

CallCloseTradeMemory ==
    \E memory_id \in 0..Len(supabase.trade_memories), exit_price \in CloseExitPrices :
        LET r == close_trade_memory(supabase, memory_id, exit_price, NoPnl, now) IN
        /\ Len(r.db.winning_patterns) <= MaxPatterns
        /\ supabase' = r.db
        /\ trade' = [agent |-> "", decision |-> "close_trade_memory", ok |-> r.ok,
                     submitted |-> FALSE, filled |-> FALSE, memory_id |-> memory_id]
        /\ UNCHANGED <<earnings_cache, now, agent_states, last, agents, trading_state, ticks, done, sched,
                       broadcast, position_exits>>

MemoryAdvance ==
    \E t \in MemoryInstants :
        /\ t > now
        /\ now' = t
        /\ UNCHANGED <<agent_states, last, agents, trade, tick_vars>>

NextMemory == TradeWithMemory \/ CallCloseTradeMemory \/ MemoryAdvance

SpecMemory == InitMemory /\ [][NextMemory]_vars

\* the agent's open memories of a symbol
OpenMemories(db, agent_id, symbol) ==
    {i \in 1..Len(db.trade_memories) :
        /\ db.trade_memories[i].agent_id = agent_id
        /\ db.trade_memories[i].symbol = symbol
        /\ db.trade_memories[i].success = None}

MostRecent(S) == CHOOSE i \in S : \A j \in S : j <= i

\* C17: when a SELL of a held symbol executes, the most recent open memory of that
\* agent and symbol is closed by the sale.
C17_SellClosesOpenMemory ==
    [][\A n \in AgentNames : \A symbol \in Symbols :
        (/\ agents'[n].trade_count = agents[n].trade_count + 1
         /\ trade'.decision = "SELL"
         /\ trade'.symbol = symbol
         /\ symbol \in DOMAIN agents[n].positions
         /\ OpenMemories(supabase, n, symbol) # {})
        => supabase'.trade_memories[MostRecent(OpenMemories(supabase, n, symbol))].success
              # None]_vars

\* C18: closing a memory that is already closed, with the arguments of its first
\* close, returns false or leaves the tables as they are.
C18_DoubleCloseIsNoOp ==
    \A m \in 1..Len(supabase.trade_memories) :
        LET memory == supabase.trade_memories[m]
            r == close_trade_memory(supabase, m, memory.exit_price, memory.pnl, now)
        IN memory.success # None => (~r.ok \/ r.db = supabase)


(***************************************************************************)
(* The ExitStrategyManager driven by its callers: run_trading_cycle        *)
(* creates the level of an executed BUY, the sweep checks the level of a   *)
(* position against the last price and removes it once the exit is sold.   *)
(***************************************************************************)
ExitSymbols == {"AAPL"}
ExitEntryPrices == {0, 100}
ExitSmartMoneySignals == {"NEUTRAL", "STRONG_BEARISH"}
ObservedPrices == {97, 103, 104, 105, 106}

InitExit ==
    /\ now = 0
    /\ agent_states = <<>>
    /\ last = NoCall
    /\ agents = [n \in AgentNames |-> NewAgent(capital_per_agent)]
    /\ trade = NoTrade
    /\ TickIdle

\* manager_agent.py lines 486-499: a BUY of one share that execute_trade reports
\* executed, filled at 100.00, and the exit level registered for it; entry_price is
\* the decision's price
ExitBuy ==
    \E n \in AgentNames, symbol \in ExitSymbols, entry_price \in ExitEntryPrices :
        LET decision == [decision |-> "BUY", symbol |-> symbol, quantity |-> 1,
                         price |-> entry_price]
            r == execute_trade(agents[n], decision, 100,
                               [accepted |-> TRUE, filled_avg_price |-> 100])
        IN /\ r.ok
           /\ r.agent.trade_count <= MaxTrades
           /\ agents' = [agents EXCEPT ![n] = r.agent]
           /\ position_exits' = ExitLevelsAfter(position_exits, n, r.ok, decision, now)
           /\ UNCHANGED <<earnings_cache, now, supabase, agent_states, last, trade, trading_state, ticks,
                          done, sched, broadcast>>

\* main.py lines 420-465 for one position: the broker is asked only when the level
\* says should_exit, and fills the sale it accepts at the price observed; last keeps
\* the level as the call found it and the signal it returned
ExitObserve ==
    \E n \in AgentNames, symbol \in ExitSymbols, price \in ObservedPrices,
       accepted \in BOOLEAN, smart_money_signal \in ExitSmartMoneySignals :
        LET r == check_exit_conditions(position_exits, n, symbol, Cents(price),
                                       smart_money_signal, now)
            order == IF accepted THEN [accepted |-> TRUE, filled_avg_price |-> price]
                     ELSE NoOrder
            st == SweepPosition([agents |-> agents, states |-> agent_states,
                                 exits |-> position_exits, submits |-> 0],
                                n, symbol, [price |-> price, order |-> order],
                                smart_money_signal, now)
        IN /\ symbol \in DOMAIN agents[n].positions
           /\ HasExitLevel(position_exits, n, symbol)
           /\ accepted => r.signal.should_exit
           /\ agents' = st.agents
           /\ agent_states' = st.states
           /\ position_exits' = st.exits
           /\ last' = [op |-> "check_exit_conditions", agent |-> n, symbol |-> symbol,
                       current_price |-> Cents(price),
                       smart_money_signal |-> smart_money_signal,
                       exit_level |-> position_exits[n][symbol],
                       holding_days |-> DaysBetween(position_exits[n][symbol].entry_time, now),
                       signal |-> r.signal, accepted |-> accepted, flip |-> ~last.flip]
           /\ UNCHANGED <<earnings_cache, now, supabase, trade, trading_state, ticks, done, sched, broadcast>>

\* hours: the day of the purchase, the next day, the tenth day
ExitInstants == {0, 24, 240}

ExitAdvance ==
    \E t \in ExitInstants :
        /\ t > now
        /\ now' = t
        /\ UNCHANGED <<agent_states, last, agents, trade, tick_vars>>

NextExit == ExitBuy \/ ExitObserve \/ ExitAdvance

SpecExit == InitExit /\ [][NextExit]_vars

\* C19: a trailing stop price that is set stays set, and no lower, for as long as
\* the position has an exit level.
C19_TrailingNeverDecreases ==
    [][\A n \in AgentNames : \A symbol \in Symbols :
        (/\ HasExitLevel(position_exits, n, symbol)
         /\ position_exits[n][symbol].trailing_stop_price # None
         /\ HasExitLevel(position_exits', n, symbol))
        => /\ position_exits'[n][symbol].trailing_stop_price # None
           /\ position_exits'[n][symbol].trailing_stop_price
                 >= position_exits[n][symbol].trailing_stop_price]_vars

\* C20: a turn whose BUY or SELL decision has no symbol or a quantity <= 0 submits
\* no order, leaves the agent's capital and positions and every exit level as they
\* were, and does not report the decision as executed.
C20_InvalidDecisionIsHold ==
    [][\A i \in 1..Len(ticks) : \A n \in TickAgents :
        (/\ Len(ticks') = Len(ticks)
         /\ n \notin ticks[i].invalid
         /\ n \in ticks'[i].invalid
         /\ ~ticks'[i].results[n].retried)
        => /\ ticks'[i].submits = ticks[i].submits
           /\ agents'[n] = agents[n]
           /\ position_exits' = position_exits
           /\ ~ticks'[i].results[n].decision_executed]_vars

\* C21: an agent whose LLM answer holds no valid JSON (analyze_market returns None,
\* reported as NONE) has had its LLM called a second time, and its turn submits
\* no order.
C21_ParseErrorRetriedOnce ==
    \A i \in 1..Len(ticks) : \A n \in DOMAIN ticks[i].turn :
        ticks[i].results[n].decision = "NONE"
            => /\ ticks[i].turn[n].llm_calls = 2
               /\ ticks[i].results[n].submits = 0

\* C22: a solo agent's turn re-analyses and retries at most once, and only after
\* its first execute_trade has failed.
C22_OneRetryAfterFailure ==
    \A i \in 1..Len(ticks) : \A n \in DOMAIN ticks[i].turn :
        /\ ticks[i].turn[n].llm_calls <= 2
        /\ ticks[i].results[n].submits <= 2
        /\ (ticks[i].turn[n].llm_calls = 2 \/ ticks[i].results[n].retried)
              => ticks[i].turn[n].first_failed

\* a turn whose first order the broker refused and whose retry submitted a second
\* order
C22_Witness ==
    \E i \in 1..Len(ticks) : \E n \in DOMAIN ticks[i].turn :
        /\ ticks[i].turn[n].first_failed
        /\ ticks[i].turn[n].llm_calls = 2
        /\ ticks[i].results[n].retried
        /\ ticks[i].results[n].submits = 2

(***************************************************************************)
(* CollaborativeAgent in weighted mode (agents/manager_agent.py): the      *)
(* decisions collected from the agents, their combination, and the         *)
(* consortium's turn of run_trading_cycle on the combined decision.        *)
(***************************************************************************)
min_collective_confidence == 55

\* perf of line 186: max(0, agent_performance) + 1
Perf(d) == (IF d.agent_performance > 0 THEN d.agent_performance ELSE 0) + 1

RECURSIVE SumSeq(_, _)
\* sum(op(d) for d in decisions)
SumSeq(op(_), decisions) ==
    IF decisions = <<>> THEN 0 ELSE op(Head(decisions)) + SumSeq(op, Tail(decisions))

\* weighted_scores[action] times 100 * total_positive_perf: the weights share the
\* denominator total_positive_perf, which is positive
WeightedScore(decisions, action) ==
    SumSeq(LAMBDA d : IF d.decision = action THEN Perf(d) * d.confidence ELSE 0, decisions)

\* max(weighted_scores, key=weighted_scores.get): the first highest of BUY, SELL, HOLD
BestAction(decisions) ==
    LET score(a) == WeightedScore(decisions, a) IN
    IF score("BUY") >= score("SELL") /\ score("BUY") >= score("HOLD") THEN "BUY"
    ELSE IF score("SELL") >= score("HOLD") THEN "SELL"
    ELSE "HOLD"

\* max(action_details[best_action], key=lambda x: x["score"]): the first vote of
\* the highest score
BestVote(decisions, action) ==
    LET votes == SelectSeq(decisions, LAMBDA d : d.decision = action)
        i == CHOOSE i \in 1..Len(votes) :
                /\ \A j \in 1..Len(votes) :
                      Perf(votes[j]) * votes[j].confidence <= Perf(votes[i]) * votes[i].confidence
                /\ \A j \in 1..(i - 1) :
                      Perf(votes[j]) * votes[j].confidence < Perf(votes[i]) * votes[i].confidence
    IN votes[i]

Combined(action, symbol, quantity, confidence, reasoning) ==
    [decision |-> action, symbol |-> symbol, quantity |-> quantity, price |-> 0,
     confidence |-> confidence, reasoning |-> reasoning]

\* lines 203-236 of _weighted_decision: the best weighted action, past the check of
\* the collective confidence
WeightedChoice(decisions) ==
    LET best_action == BestAction(decisions)
        total_positive_perf == SumSeq(Perf, decisions)
    IN IF best_action \in {"BUY", "SELL"}
       THEN LET best_vote == BestVote(decisions, best_action)
            IN Combined(best_action, best_vote.symbol, best_vote.quantity,
                        WeightedScore(decisions, best_action) \div total_positive_perf,
                        "Décision pondérée")
       ELSE Combined("HOLD", "", 0, 0, "Score pondéré insuffisant")

\* _weighted_decision without the check of lines 192-201
_weighted_decision_NoThreshold(decisions) == WeightedChoice(decisions)

\* _weighted_decision: avg_confidence < 55 is total_confidence < 55 * len(decisions)
_weighted_decision(decisions) ==
    IF SumSeq(LAMBDA d : d.confidence, decisions) < min_collective_confidence * Len(decisions)
    THEN Combined("HOLD", "", 0, 0, "Confiance collective insuffisante")
    ELSE WeightedChoice(decisions)

\* CollaborativeAgent.analyze_market, mode "weighted": decisions are the answers of
\* the agents that gave one
CollaborativeAnalyze(decisions) ==
    IF decisions = <<>> THEN Combined("HOLD", "", 0, 0, "Aucun agent n'a pu décider.")
    ELSE _weighted_decision(decisions)

MaxConsortiumTrades == 2

\* AgentManager.initialize: the agents the consortium consults, in their order
ConsortiumAgents == <<"grok", "deepseek", "gpt">>

VoteConfidences == {50, 54, 56}
VotePerformances == {0, 2}
Votes == [decision : {"BUY", "SELL", "HOLD"}, symbol : {"AAPL"}, quantity : {1},
          confidence : VoteConfidences, agent_performance : VotePerformances]

InitConsortium ==
    /\ now = 0
    /\ agent_states = <<>>
    /\ last = NoCall
    /\ agents = [n \in {"consortium"} |-> NewAgent(capital_per_agent)]
    /\ trade = NoTrade
    /\ TickIdle

\* trade while CollaborativeAgent.analyze_market runs: the agents asked so far and
\* the decisions collected from them
Asking(asked, decisions) ==
    [agent |-> "consortium", decision |-> "ASKING", ok |-> FALSE, submitted |-> FALSE,
     filled |-> FALSE, asked |-> asked, decisions |-> decisions]

IsAsking == trade.agent = "consortium" /\ trade.decision = "ASKING"

\* line 543: the consortium's turn begins, the breaker allowing it
ConsortiumStart ==
    /\ ~IsAsking
    /\ agents["consortium"].trade_count < MaxConsortiumTrades
    /\ trade' = Asking(0, <<>>)
    /\ UNCHANGED <<now, agent_states, last, agents, tick_vars>>

\* lines 87-102: the next agent answers with a decision, or with none
ConsortiumAsk ==
    /\ IsAsking
    /\ trade.asked < Len(ConsortiumAgents)
    /\ \/ trade' = Asking(trade.asked + 1, trade.decisions)
       \/ \E vote \in Votes : trade' = Asking(trade.asked + 1, Append(trade.decisions, vote))
    /\ UNCHANGED <<now, agent_states, last, agents, tick_vars>>

\* lines 104-118 and manager_agent.py lines 546-572: the decisions are combined and
\* the consortium's turn goes on with the result, an exit level registered after an
\* executed BUY; trade keeps the confidences collected and what the turn did
ConsortiumDecide ==
    /\ IsAsking
    /\ trade.asked = Len(ConsortiumAgents)
    /\ LET decisions == trade.decisions
           decision == CollaborativeAnalyze(decisions) IN
       \E should_proceed \in BOOLEAN :
         LET gates == [technical_blocked |-> FALSE, earnings_avoid |-> FALSE,
                       should_proceed |-> should_proceed]
             reached == IsTrade(decision)
                          /\ Proceeds(ConsortiumGateBlock(decision.decision, gates)) IN
         \E bars \in TickBarsFor(reached, decision) :
         \E order \in TickOrdersFor(reached, agents["consortium"], decision, bars) :
           LET r == ConsortiumTurn(agents["consortium"], TRUE, decision, gates, bars, order) IN
           /\ agents' = [agents EXCEPT !["consortium"] = r.agent]
           /\ position_exits' = ExitLevelsAfter(position_exits, "consortium",
                                                r.result.decision_executed, decision, now)
           /\ trade' = [agent |-> "consortium", decision |-> decision.decision,
                        ok |-> r.result.decision_executed,
                        submitted |-> r.result.submits > 0,
                        filled |-> r.agent # agents["consortium"],
                        reasoning |-> decision.reasoning,
                        confidences |-> [i \in 1..Len(decisions) |-> decisions[i].confidence]]
    /\ UNCHANGED <<earnings_cache, now, agent_states, last, trading_state, ticks, done, sched, broadcast,
                   supabase>>

NextConsortium == ConsortiumStart \/ ConsortiumAsk \/ ConsortiumDecide

SpecConsortium == InitConsortium /\ [][NextConsortium]_vars

RECURSIVE Total(_)
Total(s) == IF s = <<>> THEN 0 ELSE Head(s) + Total(Tail(s))

\* C23: when the mean of the confidences the consortium has collected is below 55,
\* the consortium's decision is HOLD for "Confiance collective insuffisante" and
\* its turn submits no order.
C23_LowCollectiveConfidenceHolds ==
    (/\ trade.agent = "consortium"
     /\ trade.decision # "ASKING"
     /\ trade.confidences # <<>>
     /\ Total(trade.confidences) < 55 * Len(trade.confidences))
    => /\ trade.decision = "HOLD"
       /\ trade.reasoning = "Confiance collective insuffisante"
       /\ ~trade.submitted

\* three decisions collected, of mean confidence 54.67, make the consortium hold
C23_Witness ==
    /\ trade.agent = "consortium"
    /\ trade.decision = "HOLD"
    /\ trade.confidences = <<54, 56, 54>>
    /\ ~trade.submitted

(***************************************************************************)
(* TechnicalGatesService (core/technical_gates_service.py). RSI is in      *)
(* tenths, the MACD lines in hundredths, the volume ratio in percent; an   *)
(* indicator that is missing is NoValue, a number no indicator takes; a    *)
(* missing trend is the string "None".                                     *)
(***************************************************************************)
rsi_overbought == 750
rsi_oversold == 250
rsi_high_warning == 650
rsi_low_warning == 350
macd_bearish_threshold == -50
macd_bullish_threshold == 50
volume_min_ratio == 50
volume_low_warning == 80

NoValue == 99999

\* blocked, without the assignment under the RSI test
Blocked_MacdOnly(rsi_blocks, macd_blocks, combo) == macd_blocks \/ combo

\* blocked: set by the RSI test, by the MACD test and by the fatal combination
Blocked(rsi_blocks, macd_blocks, combo) == rsi_blocks \/ macd_blocks \/ combo

\* the final decision of evaluate_buy and evaluate_sell
GateResult(blocked, risk_score, reasons) ==
    [decision |-> IF blocked THEN "BLOCKED" ELSE IF risk_score > 30 THEN "WARNING"
                  ELSE "ALLOWED",
     can_proceed |-> ~blocked,
     reasons |-> IF ~blocked /\ risk_score <= 30 THEN reasons \cup {"ALL_CLEAR"} ELSE reasons,
     risk_score |-> IF risk_score > 100 THEN 100 ELSE risk_score]

\* evaluate_buy; reasons is kept as a set
evaluate_buy(rsi, macd, macd_signal, macd_histogram, volume_ratio, trend_direction) ==
    LET has_rsi == rsi # NoValue
        has_macd == macd # NoValue /\ macd_signal # NoValue
        rsi_blocks == has_rsi /\ rsi > rsi_overbought
        rsi_warns == has_rsi /\ ~rsi_blocks /\ rsi > rsi_high_warning
        bearish == has_macd /\ macd < macd_signal /\ macd < 0
        macd_blocks == bearish /\ macd < macd_bearish_threshold
        crossover == macd_histogram # NoValue /\ macd_histogram < -50
        volume_low == volume_ratio # NoValue /\ volume_ratio < volume_min_ratio
        volume_warns == volume_ratio # NoValue /\ ~volume_low
                            /\ volume_ratio < volume_low_warning
        against == trend_direction \in {"BEARISH", "STRONG_BEARISH"}
        combo == has_rsi /\ rsi > 700 /\ macd # NoValue /\ macd < 0
        risk_score == IF combo THEN 100
                      ELSE (IF rsi_blocks THEN 50 ELSE IF rsi_warns THEN 25 ELSE 0)
                           + (IF macd_blocks THEN 40 ELSE IF bearish THEN 20 ELSE 0)
                           + (IF crossover THEN 15 ELSE 0)
                           + (IF volume_low THEN 20 ELSE IF volume_warns THEN 10 ELSE 0)
                           + (IF against THEN 15 ELSE 0)
        reasons == (IF rsi_blocks \/ combo THEN {"RSI_OVERBOUGHT"} ELSE {})
                   \cup (IF rsi_warns THEN {"RSI_HIGH"} ELSE {})
                   \cup (IF bearish THEN {"MACD_BEARISH"} ELSE {})
                   \cup (IF crossover THEN {"MACD_CROSSOVER_DOWN"} ELSE {})
                   \cup (IF volume_low THEN {"VOLUME_TOO_LOW"} ELSE {})
                   \cup (IF against THEN {"TREND_AGAINST"} ELSE {})
    IN GateResult(Blocked(rsi_blocks, macd_blocks, combo), risk_score, reasons)

\* evaluate_sell
evaluate_sell(rsi, macd, macd_signal, macd_histogram, volume_ratio, trend_direction) ==
    LET has_rsi == rsi # NoValue
        has_macd == macd # NoValue /\ macd_signal # NoValue
        rsi_blocks == has_rsi /\ rsi < rsi_oversold
        rsi_warns == has_rsi /\ ~rsi_blocks /\ rsi < rsi_low_warning
        bullish == has_macd /\ macd > macd_signal /\ macd > 0
        macd_blocks == bullish /\ macd > macd_bullish_threshold
        crossover == macd_histogram # NoValue /\ macd_histogram > 50
        volume_low == volume_ratio # NoValue /\ volume_ratio < volume_min_ratio
        against == trend_direction \in {"BULLISH", "STRONG_BULLISH"}
        combo == has_rsi /\ rsi < 300 /\ macd # NoValue /\ macd > 0
        risk_score == IF combo THEN 100
                      ELSE (IF rsi_blocks THEN 50 ELSE IF rsi_warns THEN 25 ELSE 0)
                           + (IF macd_blocks THEN 40 ELSE IF bullish THEN 20 ELSE 0)
                           + (IF crossover THEN 15 ELSE 0)
                           + (IF volume_low THEN 10 ELSE 0)
                           + (IF against THEN 15 ELSE 0)
        reasons == (IF rsi_blocks \/ combo THEN {"RSI_OVERSOLD"} ELSE {})
                   \cup (IF rsi_warns THEN {"RSI_LOW"} ELSE {})
                   \cup (IF bullish THEN {"MACD_BULLISH"} ELSE {})
                   \cup (IF crossover THEN {"MACD_CROSSOVER_UP"} ELSE {})
                   \cup (IF volume_low THEN {"VOLUME_TOO_LOW"} ELSE {})
                   \cup (IF against THEN {"TREND_AGAINST"} ELSE {})
    IN GateResult(Blocked(rsi_blocks, macd_blocks, combo), risk_score, reasons)

\* evaluate_trade
evaluate_trade(trade_decision, ta) ==
    IF trade_decision = "BUY"
    THEN evaluate_buy(ta.rsi, ta.macd_line, ta.macd_signal_line, ta.macd_histogram,
                      ta.volume_ratio, ta.trend)
    ELSE IF trade_decision = "SELL"
    THEN evaluate_sell(ta.rsi, ta.macd_line, ta.macd_signal_line, ta.macd_histogram,
                       ta.volume_ratio, ta.trend)
    ELSE [decision |-> "ALLOWED", can_proceed |-> TRUE, reasons |-> {"ALL_CLEAR"},
          risk_score |-> 0]

(***************************************************************************)
(* EarningsCalendarService (core/earnings_calendar.py), its cache empty.   *)
(* Dates are days, the clock is in hours since the midnight of day 0, the  *)
(* position size multiplier is in percent.                                 *)
(***************************************************************************)
EarningsInfo(days_until, risk_level, should_avoid_buy, position_size_multiplier) ==
    [days_until_earnings |-> days_until, risk_level |-> risk_level,
     should_avoid_buy |-> should_avoid_buy,
     position_size_multiplier |-> position_size_multiplier]

\* _calculate_risk_level
_calculate_risk_level(days_until) ==
    IF days_until <= 0
    THEN IF days_until >= -2 THEN EarningsInfo(days_until, "MEDIUM", FALSE, 75)
         ELSE EarningsInfo(days_until, "NONE", FALSE, 100)
    ELSE IF days_until <= 3 THEN EarningsInfo(days_until, "HIGH", TRUE, 0)
    ELSE IF days_until <= 7 THEN EarningsInfo(days_until, "MEDIUM", FALSE, 50)
    ELSE IF days_until <= 14 THEN EarningsInfo(days_until, "LOW", FALSE, 75)
    ELSE EarningsInfo(days_until, "NONE", FALSE, 100)

\* (earnings_date - datetime.now()).days: strptime gives the midnight of the date,
\* timedelta.days rounds down
DaysUntil(earnings_date, clock) == (earnings_date * HoursPerDay - clock) \div HoursPerDay

\* check_earnings with an API key; earnings_date is NoValue when Finnhub knows none
check_earnings(earnings_date, clock) ==
    IF earnings_date = NoValue THEN EarningsInfo(NoValue, "NONE", FALSE, 100)
    ELSE _calculate_risk_level(DaysUntil(earnings_date, clock))

\* timedelta(hours=6)
_cache_ttl == 6

\* the freshness test with a time to live of three hours
CacheFresh_ThreeHours(cache_time, t) == t - cache_time < 3

\* datetime.now() - cache_time < self._cache_ttl
CacheFresh(cache_time, t) == t - cache_time < _cache_ttl

\* check_earnings of a service with an API key, its cache included: [cache, info,
\* fetched]; fetched says whether _fetch_earnings_finnhub was called, earnings_date
\* is what Finnhub answers when it is
CheckEarningsCached(cache, symbol, earnings_date, t) ==
    IF symbol \in DOMAIN cache /\ CacheFresh(cache[symbol].cache_time, t)
    THEN [cache |-> cache, info |-> cache[symbol].info, fetched |-> FALSE]
    ELSE LET info == check_earnings(earnings_date, t)
         IN [cache |-> With(cache, symbol, [info |-> info, cache_time |-> t]),
             info |-> info, fetched |-> TRUE]

(***************************************************************************)
(* The services called once with arbitrary arguments: last keeps the call, *)
(* its arguments and its result.                                           *)
(***************************************************************************)
TechnicalAnalyses ==
    [rsi : {NoValue, 249, 250, 290, 500, 710, 750, 751},
     macd_line : {NoValue, -60, -20, 20, 60},
     macd_signal_line : {NoValue, -30, 30},
     macd_histogram : {NoValue, -60, 60},
     volume_ratio : {NoValue, 40, 70, 100},
     trend : {"None", "BEARISH", "BULLISH"}]

InitServices ==
    /\ now = 0
    /\ agent_states = <<>>
    /\ last = NoCall
    /\ agents = [n \in AgentNames |-> NewAgent(capital_per_agent)]
    /\ trade = NoTrade
    /\ TickIdle

CallEvaluateTrade ==
    /\ last = NoCall
    /\ \E trade_decision \in {"BUY", "SELL", "HOLD"}, ta \in TechnicalAnalyses :
        /\ last' = [op |-> "evaluate_trade", trade_decision |-> trade_decision,
                    technical_analysis |-> ta,
                    result |-> evaluate_trade(trade_decision, ta)]
        /\ UNCHANGED <<now, agent_states, agents, trade, tick_vars>>

\* the rows of agent_statistics that get_agent_statistics may read
AgentStatistics ==
    [win_rate : {<<0, 1>>, <<3, 10>>, <<1, 2>>, <<4, 5>>, <<1, 1>>},
     win_loss_ratio : {<<-1, 1>>, <<0, 1>>, <<1, 2>>, <<3, 2>>, <<3, 1>>, <<10, 1>>}]

Streaks == {<<0, 0>>, <<5, 0>>, <<0, 3>>}

CallCalculatePositionSize ==
    /\ last = NoCall
    /\ \E stats \in AgentStatistics, capital \in {1000, 2500}, confidence \in {40, 65, 85, 95},
       risk_level \in {"LOW", "MEDIUM", "HIGH"}, vix \in {10, 20, 28, 40},
       smart_money_signal \in {"BULLISH", "NEUTRAL", "BEARISH"}, streak \in Streaks :
        /\ last' = [op |-> "calculate_position_size", stats |-> stats, capital |-> capital,
                    confidence |-> confidence, risk_level |-> risk_level, vix |-> vix,
                    smart_money_signal |-> smart_money_signal, streak |-> streak,
                    result |-> calculate_position_size(stats, capital, confidence,
                                  risk_level, vix, smart_money_signal, streak[1], streak[2])]
        /\ UNCHANGED <<now, agent_states, agents, trade, tick_vars>>

EarningsDates == {NoValue} \cup (-4 .. 16)
EarningsClocks == {0, 10, 20}

CallCheckEarnings ==
    /\ last = NoCall
    /\ \E earnings_date \in EarningsDates, clock \in EarningsClocks :
        /\ last' = [op |-> "check_earnings", earnings_date |-> earnings_date,
                    clock |-> clock, result |-> check_earnings(earnings_date, clock)]
        /\ UNCHANGED <<now, agent_states, agents, trade, tick_vars>>

NextServices == CallEvaluateTrade \/ CallCalculatePositionSize \/ CallCheckEarnings

SpecServices == InitServices /\ [][NextServices]_vars


(***************************************************************************)
(* The earnings calendar called again and again while time passes.         *)
(***************************************************************************)
CacheInstants == {0, 3, 5, 6, 8, 11}
CachedEarningsDates == {NoValue, 1, 5}

InitEarnings ==
    /\ now = 0
    /\ agent_states = <<>>
    /\ last = NoCall
    /\ agents = [n \in AgentNames |-> NewAgent(capital_per_agent)]
    /\ trade = NoTrade
    /\ TickIdle

\* manager_agent.py line 444; last.cached_at is the time of the cache entry that
\* the call found, None when it found none
CallCheckEarningsCached ==
    \E symbol \in Symbols, earnings_date \in CachedEarningsDates :
        LET r == CheckEarningsCached(earnings_cache, symbol, earnings_date, now)
        IN /\ earnings_cache' = r.cache
           /\ last' = [op |-> "check_earnings", symbol |-> symbol, clock |-> now,
                       cached_at |-> IF symbol \in DOMAIN earnings_cache
                                     THEN earnings_cache[symbol].cache_time ELSE None,
                       fetched |-> r.fetched, result |-> r.info, flip |-> ~last.flip]
           /\ UNCHANGED <<now, agent_states, agents, trade, trading_state, ticks, done,
                          sched, broadcast, position_exits, supabase>>

EarningsAdvance ==
    \E t \in CacheInstants :
        /\ t > now
        /\ now' = t
        /\ UNCHANGED <<agent_states, last, agents, trade, tick_vars>>

NextEarnings == CallCheckEarningsCached \/ EarningsAdvance

SpecEarnings == InitEarnings /\ [][NextEarnings]_vars

\* C35: a check_earnings call for a symbol less than six hours after a lookup of
\* that symbol was cached is answered with the cached result: it makes no upstream
\* request and leaves the cache as it is.
C35_CachedWithinSixHours ==
    [][\A symbol \in Symbols :
        (/\ last'.flip # last.flip
         /\ last'.symbol = symbol
         /\ symbol \in DOMAIN earnings_cache
         /\ now - earnings_cache[symbol].cache_time < 6)
        => /\ ~last'.fetched
           /\ last'.result = earnings_cache[symbol].info
           /\ earnings_cache' = earnings_cache]_vars

\* a call answered from a cache entry five hours old
C35_Witness ==
    /\ last.op = "check_earnings"
    /\ last.cached_at # None
    /\ last.clock - last.cached_at = 5
    /\ ~last.fetched
    /\ last.symbol \in DOMAIN earnings_cache
    /\ earnings_cache[last.symbol].cache_time = last.cached_at


\* C36: the sizing multiplier of a breaker state follows its streaks: 1.2 exactly
\* when consecutive_wins >= 5, 0.7 exactly when consecutive_losses >= 3, and 1.0 in
\* every other state (in hundredths).
C36_MultiplierFollowsStreak ==
    \A a \in DOMAIN agent_states :
        agent_states[a].sizing_multiplier
            = (IF agent_states[a].consecutive_wins >= 5 THEN 120
               ELSE IF agent_states[a].consecutive_losses >= 3 THEN 70
               ELSE 100)


\* C37: when the SELL of a forced exit fails, the agent with its position and the
\* breaker states stay as they were, the exit level stays as check_exit_conditions
\* left it, and the same observation raises the same exit again.
C37_FailedExitIsRetried ==
    [][\A n \in AgentNames : \A symbol \in ExitSymbols :
        (/\ last'.flip # last.flip
         /\ last'.op = "check_exit_conditions"
         /\ last'.agent = n
         /\ last'.symbol = symbol
         /\ last'.signal.should_exit
         /\ ~last'.accepted)
        => /\ agents' = agents
           /\ agent_states' = agent_states
           /\ HasExitLevel(position_exits', n, symbol)
           /\ position_exits'
                  = check_exit_conditions(position_exits, n, symbol, last'.current_price,
                                          last'.smart_money_signal, now).exits
           /\ position_exits'[n][symbol].entry_time = position_exits[n][symbol].entry_time
           /\ position_exits'[n][symbol].stop_loss_price
                  = position_exits[n][symbol].stop_loss_price
           /\ position_exits'[n][symbol].take_profit_price
                  = position_exits[n][symbol].take_profit_price
           /\ check_exit_conditions(position_exits', n, symbol, last'.current_price,
                                    last'.smart_money_signal, now').signal.should_exit]_vars

\* a forced exit whose SELL the broker refused, the position still held
C37_Witness ==
    /\ last.op = "check_exit_conditions"
    /\ last.signal.should_exit
    /\ last.signal.reason = "STOP_LOSS"
    /\ ~last.accepted
    /\ last.symbol \in DOMAIN agents[last.agent].positions
    /\ HasExitLevel(position_exits, last.agent, last.symbol)


\* the turn of a solo agent of this tick has raised
HasSoloError(tick) == \E n \in DOMAIN tick.results : "error" \in DOMAIN tick.results[n]

\* C38: an exception in the turn of a solo agent stays in that turn: the step that
\* records it changes no agent, ends no tick and broadcasts nothing, the results
\* already there are kept, the tick goes on with the next solo agent or, after the
\* last, with the consortium, and a tick that has entered its solo turns ends only
\* after every agent has a result, with the trading_cycle broadcast.
C38_SoloExceptionConfined ==
    [][\A i \in 1..Len(ticks) :
        LET tick == ticks[i] IN
        /\ (/\ tick.pc = "solo"
            /\ ~HasSoloError(tick)
            /\ Len(ticks') = Len(ticks)
            /\ HasSoloError(ticks'[i]))
           => /\ agents' = agents
              /\ agent_states' = agent_states
              /\ position_exits' = position_exits
              /\ broadcast' = broadcast
              /\ done' = done
              /\ \A m \in DOMAIN tick.results : ticks'[i].results[m] = tick.results[m]
              /\ ticks'[i].pc = IF DOMAIN agents \ {"consortium"}
                                     \subseteq DOMAIN ticks'[i].results
                                THEN "consortium" ELSE "solo"
        /\ (/\ HasSoloError(tick)
            /\ Len(ticks') = Len(ticks)
            /\ ticks'[i] # tick)
           => /\ DOMAIN tick.results \subseteq DOMAIN ticks'[i].results
              /\ DOMAIN ticks'[i].results # DOMAIN tick.results
        /\ (/\ tick.pc \in {"solo", "consortium", "finish"}
            /\ ticks' = RemoveAt(ticks, i))
           => /\ tick.pc = "finish"
              /\ DOMAIN agents \subseteq DOMAIN tick.results
              /\ broadcast' = "trading_cycle"
              /\ done'.pc = "trading_cycle"]_vars

\* the first solo agent's turn has raised, the second solo agent has traded after
\* it, the consortium has had its turn and the tick is about to broadcast
C38_Witness ==
    \E i \in 1..Len(ticks) :
        /\ ticks[i].pc = "finish"
        /\ HasSoloError(ticks[i])
        /\ \E n \in DOMAIN ticks[i].results :
              /\ "error" \notin DOMAIN ticks[i].results[n]
              /\ n # "consortium"
              /\ n \in ticks[i].traded
        /\ "consortium" \in DOMAIN ticks[i].results


\* C39: a tick that starts while trading is inactive has no effect: it ends at
\* once, having asked neither the broker nor an LLM, and changes neither an agent,
\* a breaker state, the memory tables or an exit level, and broadcasts nothing.
C39_InactiveTickHasNoEffect ==
    [][\A i \in 1..Len(ticks) :
        (/\ ticks[i].pc = "start"
         /\ ~trading_state.active
         /\ ticks' # ticks
         /\ \A j \in 1..Len(ticks) : j # i => ticks[j].pc # "start")
        => /\ ticks' = RemoveAt(ticks, i)
           /\ ticks[i].submits = 0
           /\ ticks[i].turn = <<>>
           /\ ticks[i].results = <<>>
           /\ done'.pc = "inactive"
           /\ done'.submits = 0
           /\ done'.traded = {}
           /\ done'.recorded = {}
           /\ agents' = agents
           /\ agent_states' = agent_states
           /\ supabase' = supabase
           /\ position_exits' = position_exits
           /\ trading_state' = trading_state
           /\ broadcast' = broadcast]_vars

\* a scheduled tick has ended at the inactive test while an agent holds a position
\* bought in an earlier tick
C39_Witness ==
    /\ done.pc = "inactive"
    /\ ~trading_state.active
    /\ sched.fired >= 2
    /\ \E n \in DOMAIN agents : DOMAIN agents[n].positions # {}


\* C40: trading_enabled is broadcast exactly in the steps that turn trading from
\* inactive to active, and trading_disabled exactly in the steps that turn it from
\* active to inactive.
C40_ToggleBroadcastsItsChange ==
    [][/\ (~trading_state.active /\ trading_state'.active)
           => broadcast' = "trading_enabled"
       /\ (trading_state.active /\ ~trading_state'.active)
           => broadcast' = "trading_disabled"
       /\ (broadcast' # broadcast /\ broadcast' = "trading_enabled")
           => (~trading_state.active /\ trading_state'.active)
       /\ (broadcast' # broadcast /\ broadcast' = "trading_disabled")
           => (trading_state.active /\ ~trading_state'.active)]_vars

\* C24: a BUY with RSI above 75 and a SELL with RSI below 25 cannot proceed,
\* whatever the other indicators are.
C24_RsiGatesBlock ==
    (/\ last.op = "evaluate_trade"
     /\ last.technical_analysis.rsi # NoValue
     /\ \/ last.trade_decision = "BUY" /\ last.technical_analysis.rsi > 750
        \/ last.trade_decision = "SELL" /\ last.technical_analysis.rsi < 250)
    => ~last.result.can_proceed

\* a SELL at RSI 24.9 with every other indicator in favour of the sale
C24_Witness ==
    /\ last.op = "evaluate_trade"
    /\ last.trade_decision = "SELL"
    /\ last.technical_analysis = [rsi |-> 249, macd_line |-> -60, macd_signal_line |-> 30,
                                  macd_histogram |-> -60, volume_ratio |-> 100,
                                  trend |-> "BEARISH"]
    /\ last.result.decision = "BLOCKED"
    /\ last.result.risk_score = 50

\* C25: every Kelly sizing result has position_pct within [0.01, 0.10], so the
\* recommended amount never exceeds 10% of capital, and position_pct is 0.01 when
\* the raw Kelly fraction is 0 or less.
C25_KellyWithinBounds ==
    last.op = "calculate_position_size"
    => /\ ~FracLess(last.result.position_pct, <<1, 100>>)
       /\ ~FracLess(<<1, 10>>, last.result.position_pct)
       /\ last.result.recommended_amount <= 10 * last.capital
       /\ ~FracPositive(last.result.kelly_fraction)
             => last.result.position_pct = <<1, 100>>

\* a sizing strictly inside the bounds, one capped at 10% and one with no edge
C25_Witness ==
    /\ last.op = "calculate_position_size"
    /\ last.stats = [win_rate |-> <<1, 1>>, win_loss_ratio |-> <<3, 2>>]
    /\ last.vix = 10
    /\ last.confidence = 95
    /\ last.result.kelly_fraction = <<1, 1>>
    /\ last.result.position_pct = <<1, 10>>
    /\ last.result.recommended_amount = 10 * last.capital

\* C26: a sweep that observes a price at or below the stop-loss price of a
\* position's exit level gets a STOP_LOSS exit, whatever the holding time and the
\* smart-money signal are.
C26_StopLossFirst ==
    (/\ last.op = "check_exit_conditions"
     /\ last.current_price <= last.exit_level.stop_loss_price)
    => /\ last.signal.should_exit
       /\ last.signal.reason = "STOP_LOSS"

\* the stop-loss price itself, observed after the maximum holding time under a
\* strongly bearish signal
C26_Witness ==
    /\ last.op = "check_exit_conditions"
    /\ last.current_price = last.exit_level.stop_loss_price
    /\ last.holding_days >= max_holding_days
    /\ last.smart_money_signal = "STRONG_BEARISH"
    /\ last.signal.reason = "STOP_LOSS"

\* C27: once trailing is active for a position, a sweep that observes a price at or
\* below its trailing stop price (and neither at the stop-loss nor at the
\* take-profit, which come first) gets a TRAILING_STOP exit.
C27_TrailingStopFires ==
    (/\ last.op = "check_exit_conditions"
     /\ last.exit_level.trailing_stop_active
     /\ last.current_price * 1000 <= last.exit_level.trailing_stop_price
     /\ last.current_price > last.exit_level.stop_loss_price
     /\ last.current_price < last.exit_level.take_profit_price)
    => /\ last.signal.should_exit
       /\ last.signal.reason = "TRAILING_STOP"

\* C28: the exit level registered after an executed BUY that opens a position is
\* derived from the fill price of that BUY (the average price of the new position):
\* its stop-loss price is positive and below the fill price, its take-profit price
\* is above it.
C28_ExitLevelFromFillPrice ==
    [][\A n \in TickAgents : \A symbol \in TickSymbols :
        (/\ symbol \notin DOMAIN agents[n].positions
         /\ symbol \in DOMAIN agents'[n].positions
         /\ HasExitLevel(position_exits', n, symbol)
         /\ position_exits' # position_exits)
        => LET fill == agents'[n].positions[symbol].avg_price
               exit_level == position_exits'[n][symbol]
           IN /\ exit_level.stop_loss_price > 0
              /\ FracLess(Frac(exit_level.stop_loss_price, 100), fill)
              /\ FracLess(fill, Frac(exit_level.take_profit_price, 100))]_vars

\* C29: an agent's total_fees and capital change only by an order that the broker
\* reports as filled: an order submitted but not filled charges no fee.
C29_FeesOnlyOnFills ==
    [][\A n \in AgentNames :
        (\/ agents'[n].total_fees # agents[n].total_fees
         \/ agents'[n].current_capital # agents[n].current_capital)
        => /\ trade'.agent = n
           /\ trade'.filled]_vars

\* C30: for a symbol whose next earnings are at most 3 days (72 hours) ahead,
\* check_earnings reports HIGH, should_avoid_buy and a multiplier of 0.
C30_EarningsWithinThreeDaysBlock ==
    (/\ last.op = "check_earnings"
     /\ last.earnings_date # NoValue
     /\ last.earnings_date * HoursPerDay - last.clock > 0
     /\ last.earnings_date * HoursPerDay - last.clock <= 3 * HoursPerDay)
    => /\ last.result.risk_level = "HIGH"
       /\ last.result.should_avoid_buy
       /\ last.result.position_size_multiplier = 0

\* C31: after a step that closes an agent's position in a symbol, by a SELL of the
\* LLM or by the exit sweep, no exit level is registered for that agent and symbol.
C31_ClosedPositionHasNoExitLevel ==
    [][\A n \in DOMAIN agents : \A symbol \in TickSymbols :
        (/\ symbol \in DOMAIN agents[n].positions
         /\ symbol \notin DOMAIN agents'[n].positions)
        => ~HasExitLevel(position_exits', n, symbol)]_vars

\* C32: a row is added to trade_memories only by an executed BUY: an executed SELL
\* closes a memory or leaves the memories as they are.
C32_MemoryCreatedOnlyOnBuy ==
    [][Len(supabase'.trade_memories) > Len(supabase.trade_memories)
        => /\ trade'.decision = "BUY"
           /\ trade'.ok]_vars

\* C33: a forced exit of the sweep that closes a position at a profit (the agent
\* books a winning trade) does not increment the agent's consecutive_losses in the
\* circuit breaker.
C33_ProfitableExitIsAWin ==
    [][\A n \in AgentNames : \A symbol \in Symbols :
        (/\ last'.op = "check_exit_conditions"
         /\ last'.signal.should_exit
         /\ symbol \in DOMAIN agents[n].positions
         /\ symbol \notin DOMAIN agents'[n].positions
         /\ agents'[n].winning_trades > agents[n].winning_trades)
        => /\ n \in DOMAIN agent_states'
           /\ agent_states'[n].consecutive_losses
                  <= (IF n \in DOMAIN agent_states
                      THEN agent_states[n].consecutive_losses ELSE 0)]_vars

\* C34: an agent's capital grows only by the sale of shares the agent holds: the
\* amount credited is the price of the shares that left a position, less the fee.
C34_SellCreditsOnlyHeldShares ==
    [][\A n \in AgentNames :
        agents'[n].current_capital > agents[n].current_capital
        => \E symbol \in DOMAIN agents[n].positions : \E price \in Prices :
             LET left == IF symbol \in DOMAIN agents'[n].positions
                         THEN agents'[n].positions[symbol].qty ELSE 0
             IN agents'[n].current_capital - agents[n].current_capital
                    + simulated_fee_per_trade
                  = (agents[n].positions[symbol].qty - left) * price]_vars

====
